---- MODULE Spec2Model ----
(***************************************************************************)
(* doppel: prefix clustering of file names (Matcher.Group) and the suffix  *)
(* filter with its date/version classifier (filterFilesBySuffix,           *)
(* isLikelyDatePattern).                                                   *)
(*                                                                         *)
(* A Go string is modelled as a sequence of one-character strings, so      *)
(* that indexing, slicing and byte comparison are those of the code.  Go   *)
(* indexes from 0, the sequences here from 1: a Go index i is i+1 here.    *)
(***************************************************************************)
EXTENDS Integers, Sequences, FiniteSets, TLC

VARIABLES pc, files, minPrefixLength, pattern, result, filtered, matchingFiles,
          baseFilename, baseName, verdict,
          rejected, again, regrouped, strA, strB, prefix, prefixBA,
          showVersion, showHelp, dirStat, suffixPattern, called, runErr,
          exitStatus,
          diffCmd, content1, content2, cmdResult, ret,
          model, msg, cmd, diffCall,
          group, pairs,
          refiltered,
          cliGroups, groupNum, linesLeft, scanText, streamEnd, presented, diffs,
          runRet,
          ufGroupID, ufI, ufJ, ufRootI, ufRootJ, ufGroups

\* the flags and the progress of main and run
mainVars == <<showVersion, showHelp, dirStat, suffixPattern, called, runErr,
              exitStatus>>

\* the variables of the program around the core functions
\* the diff tool, the two files' contents, what the command did and what the
\* DiffExecutor method returned
diffVars == <<diffCmd, content1, content2, cmdResult, ret>>

\* the TUI model, the last message given to Update, the command returned and
\* the diff invocation Update made, if any
tuiVars == <<model, msg, cmd, diffCall>>

\* generatePairs' argument and result
pairVars == <<group, pairs>>

\* filterFilesBySuffix applied to its own result
refilterVars == <<refiltered>>

\* InteractiveCLI: its groups, the group being handled, the lines left on the
\* input, the line last read, how the input ends, the groups presented, the
\* diffs shown and what Run returned
cliVars ==
    <<cliGroups, groupNum, linesLeft, scanText, streamEnd, presented, diffs, runRet>>

\* Matcher.Group step by step: the union-find array, the loop indices, the
\* two roots found and the map of the collection pass
unionVars == <<ufGroupID, ufI, ufJ, ufRootI, ufRootJ, ufGroups>>

programVars ==
    <<mainVars, diffVars, tuiVars, pairVars, refilterVars, cliVars, unionVars>>

vars == <<pc, files, minPrefixLength, pattern, result, filtered, matchingFiles,
          baseFilename, baseName, verdict,
          rejected, again, regrouped, strA, strB, prefix, prefixBA,
          programVars>>

\* main has not been started
MainIdle ==
    /\ showVersion = FALSE
    /\ showHelp = FALSE
    /\ dirStat = "dir"
    /\ suffixPattern = [empty |-> TRUE]
    /\ called = {}
    /\ runErr = "none"
    /\ exitStatus = -1

DiffIdle ==
    /\ diffCmd = ""
    /\ content1 = "missing"
    /\ content2 = "missing"
    /\ cmdResult = <<>>
    /\ ret = <<>>

TuiIdle ==
    /\ model = <<>>
    /\ msg = [type |-> "none"]
    /\ cmd = "nil"
    /\ diffCall = [called |-> FALSE]

PairsIdle ==
    /\ group = <<>>
    /\ pairs = <<>>

RefilterIdle ==
    /\ refiltered = <<>>

CliIdle ==
    /\ cliGroups = <<>>
    /\ groupNum = 0
    /\ linesLeft = 0
    /\ scanText = <<>>
    /\ streamEnd = "EOF"
    /\ presented = <<>>
    /\ diffs = <<>>
    /\ runRet = "none"

UnionIdle ==
    /\ ufGroupID = <<>>
    /\ ufI = 0
    /\ ufJ = 0
    /\ ufRootI = 0
    /\ ufRootJ = 0
    /\ ufGroups = <<>>

ProgramIdle ==
    /\ MainIdle /\ DiffIdle /\ TuiIdle /\ PairsIdle /\ RefilterIdle /\ CliIdle
    /\ UnionIdle

(***************************************************************************)
(* Bounds of the input spaces.                                             *)
(***************************************************************************)
MaxFiles == 4
MaxMinPrefix == 2
MaxFilterFiles == 3
MaxStemLen == 6
MaxBaseLen == 3
MaxStrLen == 4

Min(x, y) == IF x < y THEN x ELSE y

Digits == {"0", "1", "2", "3", "4", "5", "6", "7", "8", "9"}

NoPattern == [nil |-> TRUE]

(***************************************************************************)
(* path/filepath                                                           *)
(***************************************************************************)
IsPathSeparator(c) == c = "/"

RECURSIVE StripTrailingSeparators(_)
StripTrailingSeparators(path) ==
    IF Len(path) > 0 /\ IsPathSeparator(path[Len(path)])
    THEN StripTrailingSeparators(SubSeq(path, 1, Len(path) - 1))
    ELSE path

\* the largest index at or below i that holds a separator, 0 when there is none
RECURSIVE LastSeparator(_, _)
LastSeparator(path, i) ==
    IF i >= 1 /\ ~IsPathSeparator(path[i]) THEN LastSeparator(path, i - 1) ELSE i

\* filepath.Base: the last element of the path
Base(path) ==
    IF path = <<>> THEN <<".">>
    ELSE LET p == StripTrailingSeparators(path)
             q == SubSeq(p, LastSeparator(p, Len(p)) + 1, Len(p))
         IN  IF q = <<>> THEN <<"/">> ELSE q

(***************************************************************************)
(* Matcher                                                                 *)
(***************************************************************************)
commonPrefix_NoCompare(a, b) == SubSeq(a, 1, Min(Len(a), Len(b)))

\* commonPrefix: a[:i] for the first i at which the strings differ or one ends
commonPrefix(a, b) ==
    LET minLen == IF Len(b) < Len(a) THEN Len(b) ELSE Len(a)
        RECURSIVE scan(_)
        scan(i) == IF i < minLen /\ a[i + 1] = b[i + 1] THEN scan(i + 1) ELSE i
    IN  SubSeq(a, 1, scan(0))

\* findRoot with path compression: the array it leaves behind and the root
RECURSIVE findRoot(_, _)
findRoot(groupID, x) ==
    IF groupID[x] # x
    THEN LET r == findRoot(groupID, groupID[x])
         IN  [groupID |-> [r.groupID EXCEPT ![x] = r.root], root |-> r.root]
    ELSE [groupID |-> groupID, root |-> groupID[x]]

\* the file names the prefixes are taken of: fileInfos[i].filename
Filenames_FullPath(fs) == fs

RECURSIVE Filenames(_)
Filenames(fs) ==
    IF fs = <<>> THEN <<>> ELSE <<Base(Head(fs))>> \o Filenames(Tail(fs))

sharePrefix_OffByOne(a, b, m) == Len(commonPrefix(a, b)) >= m - 1

\* the test of the pairwise pass: len(prefix) >= m.minPrefixLength
sharePrefix(a, b, m) == Len(commonPrefix(a, b)) >= m

\* the inner loop of the pairwise pass: file i against the files from j on
\* (groupID has one entry per file: len(groupID) = len(fileInfos))
RECURSIVE MergeRow(_, _, _, _, _)
MergeRow(names, m, groupID, i, j) ==
    IF j > Len(groupID) THEN groupID
    ELSE IF sharePrefix(names[i], names[j], m)
         THEN LET ri == findRoot(groupID, i)
                  rj == findRoot(ri.groupID, j)
                  merged == IF ri.root # rj.root
                            THEN [rj.groupID EXCEPT ![rj.root] = ri.root]
                            ELSE rj.groupID
              IN  MergeRow(names, m, merged, i, j + 1)
         ELSE MergeRow(names, m, groupID, i, j + 1)

\* the pairwise pass over i < j, from file i on
RECURSIVE MergePairs(_, _, _, _)
MergePairs(names, m, groupID, i) ==
    IF i > Len(groupID) THEN groupID
    ELSE MergePairs(names, m, MergeRow(names, m, groupID, i, i + 1), i + 1)

RECURSIVE CollectGroups_Prepends(_, _, _, _)
CollectGroups_Prepends(fs, groupID, groups, i) ==
    IF i > Len(groups) THEN groups
    ELSE CollectGroups_Prepends(
             fs, findRoot(groupID, i).groupID,
             [groups EXCEPT ![findRoot(groupID, i).root] = <<fs[i]>> \o @], i + 1)

\* the collection pass: groups[root] = append(groups[root], fullPath); groups
\* is given with one (empty) entry per file
RECURSIVE CollectGroups(_, _, _, _)
CollectGroups(fs, groupID, groups, i) ==
    IF i > Len(groups) THEN groups
    ELSE LET r == findRoot(groupID, i)
         IN  CollectGroups(fs, r.groupID,
                           [groups EXCEPT ![r.root] = Append(@, fs[i])], i + 1)

\* map[int][]string after the collection pass; an absent key holds <<>>
GroupsByRoot(fs, m) ==
    LET n == Len(fs)
        merged == MergePairs(Filenames(fs), m, [i \in 1..n |-> i], 1)
    IN  CollectGroups(fs, merged, [i \in 1..n |-> <<>>], 1)

\* the orders in which a range over a map with these keys may visit them
MapOrders_MayRepeat(keys) == [1..Cardinality(keys) -> keys]

MapOrders(keys) ==
    {o \in [1..Cardinality(keys) -> keys] :
        \A k1, k2 \in DOMAIN o : k1 # k2 => o[k1] # o[k2]}

Group_OnlyPairs(fs, m) ==
    IF Len(fs) < 2 THEN {<<>>}
    ELSE {[k \in DOMAIN o |-> GroupsByRoot(fs, m)[o[k]]] :
             o \in MapOrders({r \in 1..Len(fs) :
                                Len(GroupsByRoot(fs, m)[r]) = 2})}

Group_KeepSingletons(fs, m) ==
    IF Len(fs) < 2 THEN {<<>>}
    ELSE LET groups == GroupsByRoot(fs, m)
             kept == {r \in 1..Len(fs) : Len(groups[r]) >= 1}
         IN  {[k \in DOMAIN o |-> groups[o[k]]] : o \in MapOrders(kept)}

\* Matcher.Group: every slice the call may return (nil is <<>>); the order of
\* the groups is that of a range over a map
Group(fs, m) ==
    IF Len(fs) < 2 THEN {<<>>}
    ELSE LET groups == GroupsByRoot(fs, m)
             kept == {r \in 1..Len(fs) : Len(groups[r]) >= 2}
         IN  {[k \in DOMAIN o |-> groups[o[k]]] : o \in MapOrders(kept)}

(***************************************************************************)
(* Inputs of Matcher.Group: lists over a directory of names that are       *)
(* prefixes of one another, differ in the extension or the first           *)
(* character, or are the same name in another directory.                   *)
(***************************************************************************)
Paths ==
    { <<"a", "b">>, <<"a", "b", ".", "c">>, <<"a", "b", ".", "d">>, <<"b">>,
      <<"x", "/", "a", "b">>, <<"x", "/", "y", "/", "b">> }
FileLists == UNION {[1..n -> Paths] : n \in 0..MaxFiles}

InitGroup ==
    /\ pc = "start"
    /\ files \in FileLists
    /\ minPrefixLength \in 1..MaxMinPrefix
    /\ pattern = NoPattern
    /\ result = <<>>
    /\ filtered = <<>>
    /\ matchingFiles = <<>>
    /\ baseFilename = <<>>
    /\ baseName = <<>>
    /\ verdict = FALSE
    /\ rejected = {}
    /\ again = <<>>
    /\ regrouped = <<>>
    /\ strA = <<>>
    /\ strB = <<>>
    /\ prefix = <<>>
    /\ prefixBA = <<>>
    /\ ProgramIdle

\* matcher.Group(files)
DoGroup ==
    /\ pc = "start"
    /\ \E r \in Group(files, minPrefixLength) : result' = r
    /\ pc' = "grouped"
    /\ UNCHANGED programVars
    /\ UNCHANGED <<files, minPrefixLength, pattern, filtered, matchingFiles,
                   baseFilename, baseName, verdict, rejected, again,
                   regrouped, strA, strB, prefix, prefixBA>>

NextGroup == DoGroup

SpecGroup == InitGroup /\ [][NextGroup]_vars

(***************************************************************************)
(* Inputs of commonPrefix: every pair of short strings over two letters.   *)
(***************************************************************************)
PrefixChars == {"a", "b"}
PrefixStrings == UNION {[1..k -> PrefixChars] : k \in 0..MaxStrLen}

InitPrefix ==
    /\ pc = "start"
    /\ strA \in PrefixStrings
    /\ strB \in PrefixStrings
    /\ prefix = <<>>
    /\ prefixBA = <<>>
    /\ ProgramIdle
    /\ files = <<>>
    /\ minPrefixLength = 1
    /\ pattern = NoPattern
    /\ result = <<>>
    /\ filtered = <<>>
    /\ matchingFiles = <<>>
    /\ baseFilename = <<>>
    /\ baseName = <<>>
    /\ verdict = FALSE
    /\ rejected = {}
    /\ again = <<>>
    /\ regrouped = <<>>

\* commonPrefix(a, b) and commonPrefix(b, a)
DoCommonPrefix ==
    /\ pc = "start"
    /\ prefix' = commonPrefix(strA, strB)
    /\ prefixBA' = commonPrefix(strB, strA)
    /\ pc' = "compared"
    /\ UNCHANGED programVars
    /\ UNCHANGED <<files, minPrefixLength, pattern, result, filtered,
                   matchingFiles, baseFilename, baseName, verdict, rejected,
                   again, regrouped, strA, strB>>

NextPrefix == DoCommonPrefix

SpecPrefix == InitPrefix /\ [][NextPrefix]_vars

\* the groups of a result, one after the other
RECURSIVE Concat(_)
Concat(groups) ==
    IF groups = <<>> THEN <<>> ELSE Head(groups) \o Concat(Tail(groups))

\* matcher.Group called again, on the files of its own result, given once or
\* twice over
DoRegroup ==
    /\ pc = "grouped"
    /\ \E twice \in BOOLEAN :
          again' = IF twice THEN Concat(result) \o Concat(result)
                   ELSE Concat(result)
    /\ \E r \in Group(again', minPrefixLength) : regrouped' = r
    /\ pc' = "regrouped"
    /\ UNCHANGED programVars
    /\ UNCHANGED <<files, minPrefixLength, pattern, result, filtered,
                   matchingFiles, baseFilename, baseName, verdict, rejected,
                   strA, strB, prefix, prefixBA>>

NextRegroup == DoGroup \/ DoRegroup

SpecRegroup == InitGroup /\ [][NextRegroup]_vars

(***************************************************************************)
(* regexp.  A compiled pattern is sep \d{lo,hi}, followed by $ when        *)
(* anchored; hi = -1 is "no upper limit" (\d+ is lo = 1, hi = -1).         *)
(* Offsets are Go's: a match <<b, e>> covers s[b:e], here s[b+1..e].       *)
(***************************************************************************)
\* the number of digits of s from offset p on
RECURSIVE DigitRun(_, _)
DigitRun(s, p) ==
    IF p < Len(s) /\ s[p + 1] \in Digits THEN 1 + DigitRun(s, p + 1) ELSE 0

MatchAt_NoUpperLimit(re, s, p) ==
    IF p >= Len(s) \/ s[p + 1] # re.sep \/ DigitRun(s, p + 1) < re.lo THEN -1
    ELSE IF re.anchored /\ DigitRun(s, p + 1) # Len(s) - (p + 1) THEN -1
    ELSE p + 1 + DigitRun(s, p + 1)

\* the end offset of the match of re that starts at offset p, -1 when there
\* is none: greedy in the digits, giving digits back until $ holds
MatchAt(re, s, p) ==
    IF p >= Len(s) \/ s[p + 1] # re.sep THEN -1
    ELSE LET run == DigitRun(s, p + 1)
             most == IF re.hi = -1 THEN run ELSE Min(run, re.hi)
             rest == Len(s) - (p + 1)
         IN  IF re.anchored
             THEN IF run = rest /\ rest >= re.lo /\ rest <= most
                  THEN Len(s) ELSE -1
             ELSE IF most >= re.lo THEN p + 1 + most ELSE -1

\* the leftmost match at or after offset p, <<>> (nil) when there is none
RECURSIVE FindFrom(_, _, _)
FindFrom(re, s, p) ==
    IF p >= Len(s) THEN <<>>
    ELSE IF MatchAt(re, s, p) # -1 THEN <<p, MatchAt(re, s, p)>>
    ELSE FindFrom(re, s, p + 1)

\* Regexp.FindStringIndex: the location of the leftmost match
FindStringIndex(re, s) == FindFrom(re, s, 0)

\* Regexp.MatchString
MatchString(re, s) == FindStringIndex(re, s) # <<>>

\* Regexp.ReplaceAllString(s, ""): s without its successive matches
ReplaceAllString(re, s) ==
    LET RECURSIVE from(_)
        from(p) == LET m == FindFrom(re, s, p)
                   IN  IF m = <<>> THEN SubSeq(s, p + 1, Len(s))
                       ELSE SubSeq(s, p + 1, m[1]) \o from(m[2])
    IN  from(0)

\* Regexp.FindAllString(s, -1): the successive matches
FindAllString(re, s) ==
    LET RECURSIVE from(_)
        from(p) == LET m == FindFrom(re, s, p)
                   IN  IF m = <<>> THEN <<>>
                       ELSE <<SubSeq(s, m[1] + 1, m[2])>> \o from(m[2])
    IN  from(0)

(***************************************************************************)
(* isLikelyDatePattern                                                     *)
(***************************************************************************)
trailingHyphenDigits == [sep |-> "-", lo |-> 1, hi |-> -1, anchored |-> TRUE]
hyphenDigitPattern == [sep |-> "-", lo |-> 1, hi |-> -1, anchored |-> FALSE]

isLikelyDatePattern_NoTrailingRule(bf, bn) ==
    LET matches == FindAllString(hyphenDigitPattern, bf)
    IN  IF Len(matches) >= 3 THEN TRUE
        ELSE \E k \in DOMAIN matches : Len(matches[k]) >= 5

isLikelyDatePattern_ThreeDigits(bf, bn) ==
    LET matches == FindAllString(hyphenDigitPattern, bf)
    IN  IF MatchString(trailingHyphenDigits, bn) THEN TRUE
        ELSE IF Len(matches) >= 3 THEN TRUE
        ELSE \E k \in DOMAIN matches : Len(matches[k]) >= 4

isLikelyDatePattern(bf, bn) ==
    LET matches == FindAllString(hyphenDigitPattern, bf)
    IN  IF MatchString(trailingHyphenDigits, bn) THEN TRUE
        ELSE IF Len(matches) >= 3 THEN TRUE
        ELSE \E k \in DOMAIN matches : Len(matches[k]) >= 5

(***************************************************************************)
(* filterFilesBySuffix                                                     *)
(***************************************************************************)
\* filepath.Ext: from the last dot of the last element on, "" without a dot
Ext(path) ==
    LET RECURSIVE scan(_)
        scan(i) == IF i >= 1 /\ ~IsPathSeparator(path[i])
                   THEN IF path[i] = "." THEN SubSeq(path, i, Len(path))
                        ELSE scan(i - 1)
                   ELSE <<>>
    IN  scan(Len(path))

\* baseFilename := filename[:len(filename)-len(ext)]
Stem(file) ==
    LET filename == Base(file)
        ext == Ext(filename)
    IN  SubSeq(filename, 1, Len(filename) - Len(ext))

EndsWithMatch_MatchString(re, bf) == MatchString(re, bf)

\* match != nil && match[1] == len(baseFilename)
EndsWithMatch(re, bf) ==
    LET match == FindStringIndex(re, bf)
    IN  match # <<>> /\ match[2] = Len(bf)

\* step 1: the matching files with their base names, from fs[i] on
RECURSIVE MatchingFrom(_, _, _)
MatchingFrom(fs, re, i) ==
    IF i > Len(fs) THEN <<>>
    ELSE LET bf == Stem(fs[i])
             bn == ReplaceAllString(re, bf)
         IN  IF EndsWithMatch(re, bf) /\ ~isLikelyDatePattern(bf, bn)
             THEN <<[file |-> fs[i], baseName |-> bn]>> \o MatchingFrom(fs, re, i + 1)
             ELSE MatchingFrom(fs, re, i + 1)

MatchingFiles(fs, re) == MatchingFrom(fs, re, 1)

\* step 1: the files whose match reached isLikelyDatePattern and were
\* skipped by it
SkippedAsDate(fs, re) ==
    {fs[i] : i \in {k \in DOMAIN fs :
                      LET bf == Stem(fs[k])
                      IN  /\ EndsWithMatch(re, bf)
                          /\ isLikelyDatePattern(bf, ReplaceAllString(re, bf))}}

BaseNames(mf) == {mf[k].baseName : k \in DOMAIN mf}

AddMatching_NoDedup(mf, st, k) ==
    [result |-> st.result \o [j \in DOMAIN mf |-> mf[j].file],
     included |-> st.included \cup {mf[j].file : j \in DOMAIN mf}]

\* step 2, first loop: the matching files not yet included, from mf[k] on
RECURSIVE AddMatching(_, _, _)
AddMatching(mf, st, k) ==
    IF k > Len(mf) THEN st
    ELSE IF mf[k].file \notin st.included
         THEN AddMatching(mf, [result |-> Append(st.result, mf[k].file),
                               included |-> st.included \cup {mf[k].file}], k + 1)
         ELSE AddMatching(mf, st, k + 1)

RECURSIVE AddBaseFiles_AppendsFilename(_, _, _, _)
AddBaseFiles_AppendsFilename(fs, baseNames, st, i) ==
    IF i > Len(fs) THEN st
    ELSE IF fs[i] \notin st.included /\ Stem(fs[i]) \in baseNames
         THEN AddBaseFiles_AppendsFilename(fs, baseNames,
                  [result |-> Append(st.result, Base(fs[i])),
                   included |-> st.included \cup {fs[i]}], i + 1)
         ELSE AddBaseFiles_AppendsFilename(fs, baseNames, st, i + 1)

\* step 2, second loop: the files whose stem is a base name, from fs[i] on
RECURSIVE AddBaseFiles(_, _, _, _)
AddBaseFiles(fs, baseNames, st, i) ==
    IF i > Len(fs) THEN st
    ELSE IF fs[i] \notin st.included /\ Stem(fs[i]) \in baseNames
         THEN AddBaseFiles(fs, baseNames,
                  [result |-> Append(st.result, fs[i]),
                   included |-> st.included \cup {fs[i]}], i + 1)
         ELSE AddBaseFiles(fs, baseNames, st, i + 1)

RECURSIVE DropRepeats(_)
DropRepeats(fs) ==
    IF fs = <<>> THEN <<>>
    ELSE LET init == DropRepeats(SubSeq(fs, 1, Len(fs) - 1))
         IN  IF \E k \in DOMAIN init : init[k] = fs[Len(fs)] THEN init
             ELSE Append(init, fs[Len(fs)])

filterFilesBySuffix_InputOrder(fs, re) ==
    IF re = NoPattern THEN fs
    ELSE LET mf == MatchingFiles(fs, re)
             st == AddMatching(mf, [result |-> <<>>, included |-> {}], 1)
             Kept(f) == f \in AddBaseFiles(fs, BaseNames(mf), st, 1).included
         IN  DropRepeats(SelectSeq(fs, Kept))

filterFilesBySuffix_EmptyBelowTwo(fs, re) ==
    IF Len(fs) < 2 THEN <<>>
    ELSE IF re = NoPattern THEN fs
    ELSE AddBaseFiles(fs, BaseNames(MatchingFiles(fs, re)),
                      AddMatching(MatchingFiles(fs, re),
                                  [result |-> <<>>, included |-> {}], 1),
                      1).result

filterFilesBySuffix_NilDedups(fs, re) ==
    IF re = NoPattern THEN DropRepeats(fs)
    ELSE LET mf == MatchingFiles(fs, re)
             st == AddMatching(mf, [result |-> <<>>, included |-> {}], 1)
         IN  AddBaseFiles(fs, BaseNames(mf), st, 1).result

filterFilesBySuffix(fs, re) ==
    IF re = NoPattern THEN fs
    ELSE LET mf == MatchingFiles(fs, re)
             st == AddMatching(mf, [result |-> <<>>, included |-> {}], 1)
         IN  AddBaseFiles(fs, BaseNames(mf), st, 1).result

(***************************************************************************)
(* Inputs of filterFilesBySuffix: directory listings, and the patterns     *)
(* separator + digits, with a limit of two digits or none, with and        *)
(* without the trailing $.                                                 *)
(***************************************************************************)
InDir == <<"/", "p", "/">>
Txt == <<".", "t", "x", "t">>
Document == <<"d", "o", "c", "u", "m", "e", "n", "t">>
Report == <<"r", "e", "p", "o", "r", "t">>
File == <<"f", "i", "l", "e">>
Backup == <<"-", "b", "a", "c", "k", "u", "p">>

DocumentTxt == InDir \o Document \o Txt
Document1Txt == InDir \o Document \o <<"-", "1">> \o Txt
Document2Txt == InDir \o Document \o <<"-", "2">> \o Txt
Document1BackupTxt == InDir \o Document \o <<"-", "1">> \o Backup \o Txt
DocumentDateTxt ==
    InDir \o Document \o <<"-", "2", "0", "2", "6", "-", "0", "1", "-", "3", "0">> \o Txt
ReportTxt == InDir \o Report \o Txt
Report1Txt == InDir \o Report \o <<"-", "1">> \o Txt
Report2024Txt == InDir \o Report \o <<"-", "2", "0", "2", "4">> \o Txt
ReportSpace1Txt == InDir \o Report \o <<" ", "1">> \o Txt
ReportElsewhere == Report \o Txt
FileTxt == InDir \o File \o Txt
File1Txt == InDir \o File \o <<"-", "1">> \o Txt
File2Txt == InDir \o File \o <<"-", "2">> \o Txt
File12Txt == InDir \o File \o <<"-", "1", "-", "2">> \o Txt
File1BackupTxt == InDir \o File \o <<"-", "1">> \o Backup \o Txt

DocumentsDir ==
    {DocumentTxt, Document1Txt, Document2Txt, Document1BackupTxt, DocumentDateTxt}
ReportsDir == {ReportTxt, Report1Txt, Report2024Txt, ReportSpace1Txt, ReportElsewhere}
FilesDir == {FileTxt, File1Txt, File2Txt, File12Txt, File1BackupTxt}
\* short names: mixed separators, a match in the middle and at the end, an
\* empty stem, no extension
MixedDir ==
    { <<"a", "-", "1", " ", "2", ".", "t">>,
      <<"a", "-", "1", " ", "2", " ", "3", ".", "t">>,
      <<"a", "-", "1", "b", "-", "2", ".", "t">>,
      <<"a", "-", "1", "b">>,
      <<"-", "1">>,
      <<".", "t">> }
Listings == {DocumentsDir, ReportsDir, FilesDir, MixedDir}

Patterns ==
    [sep : {"-", " "}, lo : {1}, hi : {2, -1}, anchored : BOOLEAN]

\* "hyphen + 1-2 digits": -\d{1,2}$ and -\d{1,2}
HyphenDigits12 == {re \in Patterns : re.sep = "-" /\ re.hi = 2}

\* a directory's whole listing, each file once, in any order
FullListings(dir) ==
    {fs \in [1..Cardinality(dir) -> dir] : {fs[i] : i \in DOMAIN fs} = dir}

InitFilter ==
    /\ pc = "start"
    /\ \E dir \in Listings :
          files \in UNION {[1..n -> dir] : n \in 0..MaxFilterFiles}
                      \cup FullListings(dir)
    /\ pattern \in Patterns \cup {NoPattern}
    /\ minPrefixLength = 1
    /\ result = <<>>
    /\ filtered = <<>>
    /\ matchingFiles = <<>>
    /\ baseFilename = <<>>
    /\ baseName = <<>>
    /\ verdict = FALSE
    /\ rejected = {}
    /\ again = <<>>
    /\ regrouped = <<>>
    /\ strA = <<>>
    /\ strB = <<>>
    /\ prefix = <<>>
    /\ prefixBA = <<>>
    /\ ProgramIdle

\* filterFilesBySuffix(files, suffixPattern); matchingFiles is its local,
\* rejected the files it skipped on isLikelyDatePattern
DoFilter ==
    /\ pc = "start"
    /\ filtered' = filterFilesBySuffix(files, pattern)
    /\ matchingFiles' = IF pattern = NoPattern THEN <<>>
                        ELSE MatchingFiles(files, pattern)
    /\ rejected' = IF pattern = NoPattern THEN {}
                   ELSE SkippedAsDate(files, pattern)
    /\ pc' = "filtered"
    /\ UNCHANGED programVars
    /\ UNCHANGED <<files, minPrefixLength, pattern, result,
                   baseFilename, baseName, verdict, again, regrouped,
                   strA, strB, prefix, prefixBA>>

NextFilter == DoFilter

SpecFilter == InitFilter /\ [][NextFilter]_vars

\* filterFilesBySuffix called again, on its own result
DoRefilter ==
    /\ pc = "filtered"
    /\ refiltered' = filterFilesBySuffix(filtered, pattern)
    /\ pc' = "refiltered"
    /\ UNCHANGED <<mainVars, diffVars, tuiVars, pairVars, cliVars, unionVars>>
    /\ UNCHANGED <<files, minPrefixLength, pattern, result, filtered,
                   matchingFiles, rejected, baseFilename, baseName, verdict,
                   again, regrouped, strA, strB, prefix, prefixBA>>

NextRefilter == DoFilter \/ DoRefilter

SpecRefilter == InitFilter /\ [][NextRefilter]_vars

(***************************************************************************)
(* Inputs of isLikelyDatePattern: every pair of short strings over a       *)
(* letter, the hyphen and a digit.                                         *)
(***************************************************************************)
StemChars == {"a", "-", "1"}
StringsUpTo(n) == UNION {[1..k -> StemChars] : k \in 0..n}

InitDate ==
    /\ pc = "start"
    /\ baseFilename \in StringsUpTo(MaxStemLen)
    /\ baseName \in StringsUpTo(MaxBaseLen)
    /\ verdict = FALSE
    /\ files = <<>>
    /\ pattern = NoPattern
    /\ minPrefixLength = 1
    /\ result = <<>>
    /\ filtered = <<>>
    /\ matchingFiles = <<>>
    /\ rejected = {}
    /\ again = <<>>
    /\ regrouped = <<>>
    /\ strA = <<>>
    /\ strB = <<>>
    /\ prefix = <<>>
    /\ prefixBA = <<>>
    /\ ProgramIdle

\* isLikelyDatePattern(baseFilename, baseName)
DoClassify ==
    /\ pc = "start"
    /\ verdict' = isLikelyDatePattern(baseFilename, baseName)
    /\ pc' = "classified"
    /\ UNCHANGED programVars
    /\ UNCHANGED <<files, minPrefixLength, pattern, result, filtered,
                   matchingFiles, baseFilename, baseName, rejected, again,
                   regrouped, strA, strB, prefix, prefixBA>>

NextDate == DoClassify

SpecDate == InitDate /\ [][NextDate]_vars

(***************************************************************************)
(* main and run.  The --suffix flag is "" (empty), a pattern text, or a    *)
(* text that does not compile; a pattern text ends in $ when anchored.     *)
(* called is the set of functions entered so far.                          *)
(***************************************************************************)
scratchVars == <<filtered, matchingFiles, baseFilename, baseName, verdict,
                 rejected, again, regrouped, strA, strB, prefix, prefixBA>>

ScratchIdle ==
    /\ filtered = <<>>
    /\ matchingFiles = <<>>
    /\ baseFilename = <<>>
    /\ baseName = <<>>
    /\ verdict = FALSE
    /\ rejected = {}
    /\ again = <<>>
    /\ regrouped = <<>>
    /\ strA = <<>>
    /\ strB = <<>>
    /\ prefix = <<>>
    /\ prefixBA = <<>>

EmptyFlag == [empty |-> TRUE]
InvalidFlag == [invalid |-> TRUE]
SuffixFlags == {EmptyFlag, InvalidFlag} \cup Patterns

\* patternStr: the flag text with $ appended unless it ends in $
Anchor(flag) == IF flag = InvalidFlag THEN flag ELSE [flag EXCEPT !.anchored = TRUE]

\* regexp.Compile: the compiled pattern, or an error
CompileFails(text) == text = InvalidFlag

\* the entries of the scanned directory, as os.ReadDir sorts them
DirEntries == <<Document1Txt, Document2Txt, DocumentDateTxt, DocumentTxt, ReportTxt>>

\* Scanner.Scan: the files of the directory, which holds any of the entries
RECURSIVE Entries(_, _)
Entries(S, i) ==
    IF i > Len(DirEntries) THEN <<>>
    ELSE IF i \in S THEN <<DirEntries[i]>> \o Entries(S, i + 1)
    ELSE Entries(S, i + 1)

ScanResults == {Entries(S, 1) : S \in SUBSET DOMAIN DirEntries}

MinPrefixTooSmall_Negative(n) == n < 0

\* *minPrefix < 1
MinPrefixTooSmall(n) == n < 1

NotEnoughFiles_None(fs) == Len(fs) < 1

\* len(files) < 2
NotEnoughFiles(fs) == Len(fs) < 2

InitMain ==
    /\ pc = "main:flags"
    /\ showVersion \in BOOLEAN
    /\ showHelp \in BOOLEAN
    /\ dirStat \in {"absent", "file", "dir"}
    /\ minPrefixLength \in 0..MaxMinPrefix
    /\ suffixPattern \in SuffixFlags
    /\ pattern = NoPattern
    /\ files = <<>>
    /\ result = <<>>
    /\ called = {}
    /\ runErr = "none"
    /\ exitStatus = -1
    /\ ScratchIdle
    /\ UnionIdle
    /\ CliIdle
    /\ RefilterIdle
    /\ DiffIdle
    /\ TuiIdle
    /\ PairsIdle

\* main, lines 37-45: --version and --help return before anything is checked
MainFlags ==
    /\ pc = "main:flags"
    /\ IF showVersion \/ showHelp
       THEN pc' = "done" /\ exitStatus' = 0
       ELSE pc' = "main:stat" /\ UNCHANGED exitStatus
    /\ UNCHANGED <<files, minPrefixLength, pattern, result, scratchVars,
                   diffVars, tuiVars, pairVars,
                   showVersion, showHelp, dirStat, suffixPattern, called, runErr,
                   refilterVars, cliVars, unionVars>>

\* main, lines 53-62: the directory must exist and be a directory
MainStat ==
    /\ pc = "main:stat"
    /\ IF dirStat # "dir"
       THEN pc' = "done" /\ exitStatus' = 1
       ELSE pc' = "main:minPrefix" /\ UNCHANGED exitStatus
    /\ UNCHANGED <<files, minPrefixLength, pattern, result, scratchVars,
                   diffVars, tuiVars, pairVars,
                   showVersion, showHelp, dirStat, suffixPattern, called, runErr,
                   refilterVars, cliVars, unionVars>>

\* main, lines 64-68
MainMinPrefix ==
    /\ pc = "main:minPrefix"
    /\ IF MinPrefixTooSmall(minPrefixLength)
       THEN pc' = "done" /\ exitStatus' = 1
       ELSE pc' = "main:compile" /\ UNCHANGED exitStatus
    /\ UNCHANGED <<files, minPrefixLength, pattern, result, scratchVars,
                   diffVars, tuiVars, pairVars,
                   showVersion, showHelp, dirStat, suffixPattern, called, runErr,
                   refilterVars, cliVars, unionVars>>

\* main, lines 70-88: compile the pattern, then enter run
MainCompile ==
    /\ pc = "main:compile"
    /\ IF suffixPattern # EmptyFlag /\ CompileFails(Anchor(suffixPattern))
       THEN pc' = "done" /\ exitStatus' = 1 /\ UNCHANGED <<pattern, called>>
       ELSE /\ pattern' = IF suffixPattern = EmptyFlag THEN NoPattern
                          ELSE Anchor(suffixPattern)
            /\ called' = called \cup {"run"}
            /\ pc' = "run:scan"
            /\ UNCHANGED exitStatus
    /\ UNCHANGED <<files, minPrefixLength, result, scratchVars,
                   diffVars, tuiVars, pairVars,
                   showVersion, showHelp, dirStat, suffixPattern, runErr,
                   refilterVars, cliVars, unionVars>>

\* run, lines 97-101: the scan may fail
RunScan ==
    /\ pc = "run:scan"
    /\ called' = called \cup {"Scan"}
    /\ \/ runErr' = "scan" /\ pc' = "main:return" /\ UNCHANGED files
       \/ files' \in ScanResults /\ pc' = "run:filter" /\ UNCHANGED runErr
    /\ UNCHANGED <<minPrefixLength, pattern, result, scratchVars,
                   diffVars, tuiVars, pairVars,
                   showVersion, showHelp, dirStat, suffixPattern, exitStatus,
                   refilterVars, cliVars, unionVars>>

\* run, lines 104-111: the filter, then the test for enough files
RunFilter ==
    /\ pc = "run:filter"
    /\ IF pattern # NoPattern
       THEN /\ files' = filterFilesBySuffix(files, pattern)
            /\ called' = called \cup {"filterFilesBySuffix"}
       ELSE UNCHANGED <<files, called>>
    /\ IF NotEnoughFiles(files')
       THEN runErr' = "nil" /\ pc' = "main:return"
       ELSE pc' = "run:group" /\ UNCHANGED runErr
    /\ UNCHANGED <<minPrefixLength, result, pattern, scratchVars,
                   diffVars, tuiVars, pairVars,
                   showVersion, showHelp, dirStat, suffixPattern, exitStatus,
                   refilterVars, cliVars, unionVars>>

\* run, lines 114-120: the grouping, then the test for a group
RunGroup ==
    /\ pc = "run:group"
    /\ called' = called \cup {"Group"}
    /\ \E r \in Group(files, minPrefixLength) : result' = r
    /\ IF Len(result') = 0
       THEN runErr' = "nil" /\ pc' = "main:return"
       ELSE pc' = "run:ui" /\ UNCHANGED runErr
    /\ UNCHANGED <<files, minPrefixLength, pattern, scratchVars,
                   diffVars, tuiVars, pairVars,
                   showVersion, showHelp, dirStat, suffixPattern, exitStatus,
                   refilterVars, cliVars, unionVars>>

\* run, lines 123-131: the interactive UI, which ends with or without an error
RunUI ==
    /\ pc = "run:ui"
    /\ called' = called \cup {"tea.Program.Run"}
    /\ runErr' \in {"nil", "ui"}
    /\ pc' = "main:return"
    /\ UNCHANGED <<files, minPrefixLength, pattern, result, scratchVars,
                   diffVars, tuiVars, pairVars,
                   showVersion, showHelp, dirStat, suffixPattern, exitStatus,
                   refilterVars, cliVars, unionVars>>

\* main, lines 88-92: the exit status after run
MainReturn ==
    /\ pc = "main:return"
    /\ exitStatus' = IF runErr = "nil" THEN 0 ELSE 1
    /\ pc' = "done"
    /\ UNCHANGED <<files, minPrefixLength, pattern, result, scratchVars,
                   diffVars, tuiVars, pairVars,
                   showVersion, showHelp, dirStat, suffixPattern, called, runErr,
                   refilterVars, cliVars, unionVars>>

NextMain ==
    \/ MainFlags
    \/ MainStat
    \/ MainMinPrefix
    \/ MainCompile
    \/ RunScan
    \/ RunFilter
    \/ RunGroup
    \/ RunUI
    \/ MainReturn

SpecMain == InitMain /\ [][NextMain]_vars

(***************************************************************************)
(* DiffExecutor: the three methods run the diff command on two files and   *)
(* turn what exec reports into their return values.  A command either      *)
(* cannot be started (exec reports an error that is no *exec.ExitError) or *)
(* runs and leaves an exit status and its combined output; a status of -1  *)
(* is what ExitCode() gives for a command ended by a signal.               *)
(***************************************************************************)
MaxExitStatus == 3

Contents == {"missing", "", "one", "two"}

DiffCommands == {"", "diff", "no-such-command", "tool"}

NotStarted == [started |-> FALSE, status |-> 0, output |-> ""]

\* diff(1): status 0 for identical files, 1 for different files, 2 for trouble
DiffProgram(option, c1, c2) ==
    IF "missing" \in {c1, c2}
    THEN [started |-> TRUE, status |-> 2,
          output |-> "diff: No such file or directory"]
    ELSE IF c1 = c2
    THEN [started |-> TRUE, status |-> 0,
          output |-> IF option = "-y" /\ c1 # "" THEN c1 ELSE ""]
    ELSE [started |-> TRUE, status |-> 1,
          output |-> IF option = "-q" THEN "Files differ" ELSE "changes"]

NewDiffExecutor(command) == IF command = "" THEN "diff" ELSE command

\* what exec.Command(d.diffCmd, option, file1, file2) can do
CommandResults(command, option, c1, c2) ==
    IF command = "diff" THEN {DiffProgram(option, c1, c2)}
    ELSE IF command = "no-such-command" THEN {NotStarted}
    ELSE {[started |-> TRUE, status |-> s, output |-> o] :
             s \in -1..MaxExitStatus, o \in {"", "text"}}

\* the body shared by DiffSideBySide and DiffUnified
DiffOutput(r) ==
    IF ~r.started
    THEN [output |-> "", err |-> "failed to execute diff command"]
    ELSE [output |-> r.output, err |-> "nil"]

DiffSideBySide(r) == DiffOutput(r)

DiffUnified(r) == DiffOutput(r)

FilesIdentical_AnyExitDiffers(r) ==
    IF r.started /\ r.status = 0 THEN [identical |-> TRUE, err |-> "nil"]
    ELSE IF r.started THEN [identical |-> FALSE, err |-> "nil"]
    ELSE [identical |-> FALSE, err |-> "failed to execute diff command"]

FilesIdentical(r) ==
    IF r.started /\ r.status = 0 THEN [identical |-> TRUE, err |-> "nil"]
    ELSE IF r.started /\ r.status = 1
    THEN [identical |-> FALSE, err |-> "nil"]
    ELSE IF r.started
    THEN [identical |-> FALSE, err |-> "diff command failed"]
    ELSE [identical |-> FALSE, err |-> "failed to execute diff command"]

InitDiff ==
    /\ pc = "diff:start"
    /\ diffCmd \in {NewDiffExecutor(c) : c \in DiffCommands}
    /\ content1 \in Contents
    /\ content2 \in Contents
    /\ cmdResult = <<>>
    /\ ret = <<>>
    /\ files = <<>>
    /\ minPrefixLength = 1
    /\ pattern = NoPattern
    /\ result = <<>>
    /\ ScratchIdle
    /\ UnionIdle
    /\ CliIdle
    /\ RefilterIdle
    /\ MainIdle
    /\ TuiIdle
    /\ PairsIdle

DiffFrame ==
    UNCHANGED <<files, minPrefixLength, pattern, result, scratchVars,
                mainVars, tuiVars, pairVars, diffCmd, content1, content2,
                refilterVars, cliVars, unionVars>>

DoDiffSideBySide ==
    /\ pc = "diff:start"
    /\ \E r \in CommandResults(diffCmd, "-y", content1, content2) :
          /\ cmdResult' = r
          /\ ret' = DiffSideBySide(r)
    /\ pc' = "DiffSideBySide"
    /\ DiffFrame

DoDiffUnified ==
    /\ pc = "diff:start"
    /\ \E r \in CommandResults(diffCmd, "-u", content1, content2) :
          /\ cmdResult' = r
          /\ ret' = DiffUnified(r)
    /\ pc' = "DiffUnified"
    /\ DiffFrame

DoFilesIdentical ==
    /\ pc = "diff:start"
    /\ \E r \in CommandResults(diffCmd, "-q", content1, content2) :
          /\ cmdResult' = r
          /\ ret' = FilesIdentical(r)
    /\ pc' = "FilesIdentical"
    /\ DiffFrame

NextDiff == DoDiffSideBySide \/ DoDiffUnified \/ DoFilesIdentical

SpecDiff == InitDiff /\ [][NextDiff]_vars

(***************************************************************************)
(* InteractiveCLI.generatePairs: the pairs of a group's files, by two      *)
(* nested loops over positions.                                            *)
(***************************************************************************)
MaxGroupLen == 4

PairNames == {"a", "b", "c"}

RECURSIVE NamesUpTo(_)
NamesUpTo(n) ==
    IF n = 0 THEN {<<>>}
    ELSE LET shorter == NamesUpTo(n - 1)
         IN shorter \cup {Append(s, c) : s \in {t \in shorter : Len(t) = n - 1},
                                          c \in PairNames}

\* the initialiser of the inner loop, j := i + 1
FirstPartner_Self(i) == i

FirstPartner(i) == i + 1

\* for j := ...; j < len(group); j++ { pairs = append(pairs, ...) }
RECURSIVE InnerLoop(_, _, _, _)
InnerLoop(g, acc, i, j) ==
    IF j > Len(g) \/ Len(acc) < 0 THEN acc
    ELSE InnerLoop(g, Append(acc, <<g[i], g[j]>>), i, j + 1)

\* for i := 0; i < len(group); i++ { ... }
RECURSIVE OuterLoop(_, _, _)
OuterLoop(g, acc, i) ==
    IF i > Len(g) \/ Len(acc) < 0 THEN acc
    ELSE OuterLoop(g, InnerLoop(g, acc, i, FirstPartner(i)), i + 1)

generatePairs(g) == OuterLoop(g, <<>>, 1)

InitPairs ==
    /\ pc = "pairs:start"
    /\ group \in NamesUpTo(MaxGroupLen)
    /\ pairs = <<>>
    /\ files = <<>>
    /\ minPrefixLength = 1
    /\ pattern = NoPattern
    /\ result = <<>>
    /\ ScratchIdle
    /\ UnionIdle
    /\ CliIdle
    /\ RefilterIdle
    /\ MainIdle
    /\ DiffIdle
    /\ TuiIdle

DoGeneratePairs ==
    /\ pc = "pairs:start"
    /\ pairs' = generatePairs(group)
    /\ pc' = "generatePairs"
    /\ UNCHANGED <<files, minPrefixLength, pattern, result, scratchVars,
                   mainVars, diffVars, tuiVars, group, refilterVars, cliVars,
                   unionVars>>

NextPairs == DoGeneratePairs

SpecPairs == InitPairs /\ [][NextPairs]_vars

(***************************************************************************)
(* The TUI: a bubbletea model whose Update takes one message and returns   *)
(* the next model and a command.  cursor and currentGroup are Go indices,  *)
(* counted from 0; the empty sequence is the empty string.  The program    *)
(* ends once Update has returned tea.Quit.                                 *)
(***************************************************************************)
MaxGroups == 2

TuiGroupPool ==
    {<<Document1Txt, Document2Txt, DocumentTxt>>,
     <<Report1Txt, ReportTxt>>,
     <<File1Txt, File2Txt, FileTxt>>}

\* the lists of 1..n groups that Group can return: no group twice
RECURSIVE GroupListsUpTo(_)
GroupListsUpTo(n) ==
    IF n = 0 THEN {<<>>}
    ELSE LET shorter == GroupListsUpTo(n - 1)
         IN shorter \cup
            {Append(s, g) : s \in {t \in shorter : Len(t) = n - 1},
                            g \in TuiGroupPool}

WithoutRepeats(s) == \A i, j \in DOMAIN s : s[i] = s[j] => i = j

TuiGroups ==
    {gs \in GroupListsUpTo(MaxGroups) : Len(gs) >= 1 /\ WithoutRepeats(gs)}

WindowSizes == {[width |-> 80, height |-> 24]}

KeyMsg(key) == [type |-> "KeyMsg", key |-> key]

WindowSizeMsg(size) ==
    [type |-> "WindowSizeMsg", width |-> size.width, height |-> size.height]

\* what the command run by m.diffExec.DiffSideBySide can do for two files of
\* the group, whatever they hold by now
TuiCommandResults(diffExec) ==
    UNION {CommandResults(diffExec, "-y", c1, c2) :
              c1 \in Contents, c2 \in Contents}

initialModel(gs, diffExec) ==
    [groups |-> gs, currentGroup |-> 0, state |-> "stateSelectGroup",
     cursor |-> 0, firstFile |-> <<>>, secondFile |-> <<>>,
     diffOutput |-> "", diffExec |-> diffExec, width |-> 0, height |-> 0]

getCurrentGroup(md) ==
    IF md.currentGroup >= Len(md.groups) THEN <<>>
    ELSE md.groups[md.currentGroup + 1]

\* group[c] == m.firstFile, for a Go index c
OnFirstFile(md, c) ==
    c < Len(getCurrentGroup(md)) /\ getCurrentGroup(md)[c + 1] = md.firstFile

Skipping(md) == md.state = "stateSelectSecondFile" /\ md.firstFile # <<>>

\* case "up", "k"
KeyUp(md) ==
    IF md.cursor > 0
    THEN LET c == md.cursor - 1
             last == Len(getCurrentGroup(md)) - 1
         IN [md EXCEPT !.cursor =
                IF Skipping(md) /\ OnFirstFile(md, c)
                THEN IF c > 0 THEN c - 1
                     ELSE IF last > 0 /\ OnFirstFile(md, last) THEN last - 1
                     ELSE last
                ELSE c]
    ELSE md

\* case "down", "j"
KeyDown_OneTooFar(md) ==
    IF md.state = "stateViewDiff" THEN md
    ELSE LET max == IF md.state = "stateSelectGroup"
                    THEN Len(md.groups)
                    ELSE Len(getCurrentGroup(md))
         IN IF md.cursor < max THEN [md EXCEPT !.cursor = @ + 1] ELSE md

KeyDown(md) ==
    IF md.state = "stateViewDiff" THEN md
    ELSE LET max == IF md.state = "stateSelectGroup"
                    THEN Len(md.groups) - 1
                    ELSE Len(getCurrentGroup(md)) - 1
             c == md.cursor + 1
         IN IF md.cursor < max
            THEN [md EXCEPT !.cursor =
                     IF Skipping(md) /\ OnFirstFile(md, c)
                     THEN IF c < max THEN c + 1
                          ELSE IF OnFirstFile(md, 0) /\ 0 < max THEN 1
                          ELSE 0
                     ELSE c]
            ELSE md

\* case "n"
KeyNext_Wraps(md) ==
    IF md.state = "stateSelectGroup"
    THEN [md EXCEPT !.currentGroup = (@ + 1) % Len(md.groups), !.cursor = 0]
    ELSE md

KeyNext(md) ==
    IF md.state = "stateSelectGroup" /\ md.currentGroup < Len(md.groups) - 1
    THEN [md EXCEPT !.currentGroup = @ + 1, !.cursor = 0]
    ELSE md

\* the file under the cursor can be taken as second file
SelectsSecondFile_AnyFile(md) == md.cursor < Len(getCurrentGroup(md))

SelectsSecondFile(md) ==
    /\ md.cursor < Len(getCurrentGroup(md))
    /\ getCurrentGroup(md)[md.cursor + 1] # md.firstFile

\* case stateViewDiff of handleEnter
AfterDiff_KeepsFirstFile(md) ==
    [md EXCEPT !.state = "stateSelectSecondFile", !.secondFile = <<>>,
               !.diffOutput = "", !.cursor = 0]

AfterDiff(md) ==
    [md EXCEPT !.state = "stateSelectFirstFile", !.firstFile = <<>>,
               !.secondFile = <<>>, !.diffOutput = "", !.cursor = 0]

handleEnter(md, diff) ==
    LET grp == getCurrentGroup(md)
    IN CASE md.state = "stateSelectGroup" ->
              IF Len(md.groups) = 0 THEN [model |-> md, cmd |-> "tea.Quit"]
              ELSE [model |-> [md EXCEPT !.state = "stateSelectFirstFile",
                                         !.cursor = 0],
                    cmd |-> "nil"]
         [] md.state = "stateSelectFirstFile" ->
              IF md.cursor < Len(grp)
              THEN [model |->
                       [md EXCEPT !.firstFile = grp[md.cursor + 1],
                                  !.state = "stateSelectSecondFile",
                                  !.cursor =
                                      IF grp[1] = grp[md.cursor + 1]
                                         /\ Len(grp) > 1
                                      THEN 1 ELSE 0],
                    cmd |-> "nil"]
              ELSE [model |-> md, cmd |-> "nil"]
         [] md.state = "stateSelectSecondFile" ->
              IF SelectsSecondFile(md)
              THEN [model |->
                       [md EXCEPT !.secondFile = grp[md.cursor + 1],
                                  !.diffOutput =
                                      IF diff.err # "nil"
                                      THEN "Error generating diff: " \o diff.err
                                      ELSE diff.output,
                                  !.state = "stateViewDiff"],
                    cmd |-> "nil"]
              ELSE [model |-> md, cmd |-> "nil"]
         [] md.state = "stateViewDiff" ->
              [model |-> AfterDiff(md), cmd |-> "nil"]

handleEscape_KeepsDiff(md) ==
    CASE md.state = "stateSelectFirstFile" ->
           [model |-> [md EXCEPT !.state = "stateSelectGroup", !.cursor = 0],
            cmd |-> "nil"]
      [] md.state = "stateSelectSecondFile" ->
           [model |-> [md EXCEPT !.state = "stateSelectFirstFile",
                                 !.firstFile = <<>>, !.cursor = 0],
            cmd |-> "nil"]
      [] md.state = "stateViewDiff" ->
           [model |-> [md EXCEPT !.state = "stateSelectSecondFile",
                                 !.cursor = 0],
            cmd |-> "nil"]
      [] OTHER -> [model |-> md, cmd |-> "nil"]

handleEscape_ToGroups(md) ==
    [model |-> [md EXCEPT !.state = "stateSelectGroup", !.firstFile = <<>>,
                          !.secondFile = <<>>, !.diffOutput = "",
                          !.cursor = 0],
     cmd |-> "nil"]

handleEscape(md) ==
    CASE md.state = "stateSelectFirstFile" ->
           [model |-> [md EXCEPT !.state = "stateSelectGroup", !.cursor = 0],
            cmd |-> "nil"]
      [] md.state = "stateSelectSecondFile" ->
           [model |-> [md EXCEPT !.state = "stateSelectFirstFile",
                                 !.firstFile = <<>>, !.cursor = 0],
            cmd |-> "nil"]
      [] md.state = "stateViewDiff" ->
           [model |-> [md EXCEPT !.state = "stateSelectSecondFile",
                                 !.secondFile = <<>>, !.diffOutput = "",
                                 !.cursor = 0],
            cmd |-> "nil"]
      [] OTHER -> [model |-> md, cmd |-> "nil"]

\* case "ctrl+c", "q"
IsQuitKey_OnlyCtrlC(key) == key = "ctrl+c"

IsQuitKey(key) == key \in {"ctrl+c", "q"}

Update(md, message, diff) ==
    IF message.type = "WindowSizeMsg"
    THEN [model |-> [md EXCEPT !.width = message.width,
                               !.height = message.height],
          cmd |-> "nil"]
    ELSE IF IsQuitKey(message.key) THEN [model |-> md, cmd |-> "tea.Quit"]
    ELSE IF message.key \in {"up", "k"}
    THEN [model |-> KeyUp(md), cmd |-> "nil"]
    ELSE IF message.key \in {"down", "j"}
    THEN [model |-> KeyDown(md), cmd |-> "nil"]
    ELSE IF message.key \in {"enter", " "} THEN handleEnter(md, diff)
    ELSE IF message.key = "esc" THEN handleEscape(md)
    ELSE IF message.key = "n" THEN [model |-> KeyNext(md), cmd |-> "nil"]
    ELSE [model |-> md, cmd |-> "nil"]

InitTui ==
    /\ pc = "tui"
    /\ model \in {initialModel(gs, NewDiffExecutor(c)) :
                     gs \in TuiGroups, c \in DiffCommands}
    /\ msg = [type |-> "none"]
    /\ cmd = "nil"
    /\ diffCall = [called |-> FALSE]
    /\ files = <<>>
    /\ minPrefixLength = 1
    /\ pattern = NoPattern
    /\ result = <<>>
    /\ ScratchIdle
    /\ UnionIdle
    /\ CliIdle
    /\ RefilterIdle
    /\ MainIdle
    /\ DiffIdle
    /\ PairsIdle

\* the program is running: Update has not returned tea.Quit
Running == pc = "tui" /\ cmd # "tea.Quit"

\* handleEnter reaches the call of m.diffExec.DiffSideBySide
InvokesDiff(md, message) ==
    /\ message.type = "KeyMsg"
    /\ message.key \in {"enter", " "}
    /\ md.state = "stateSelectSecondFile"
    /\ SelectsSecondFile(md)

\* the program hands message to Update and keeps what it returns; r is what
\* the diff command does if Update runs it
Deliver(message, r) ==
    /\ msg' = message
    /\ model' = Update(model, message, DiffSideBySide(r)).model
    /\ cmd' = Update(model, message, DiffSideBySide(r)).cmd
    /\ diffCall' = IF InvokesDiff(model, message)
                   THEN [called |-> TRUE, file1 |-> model.firstFile,
                         file2 |-> getCurrentGroup(model)[model.cursor + 1],
                         result |-> r]
                   ELSE [called |-> FALSE]
    /\ UNCHANGED <<pc, files, minPrefixLength, pattern, result, scratchVars,
                   mainVars, diffVars, pairVars, refilterVars, cliVars,
                   unionVars>>

DoWindowSize ==
    /\ Running
    /\ \E size \in WindowSizes : Deliver(WindowSizeMsg(size), NotStarted)

DoQuitKey ==
    /\ Running
    /\ \E key \in {"ctrl+c", "q"} : Deliver(KeyMsg(key), NotStarted)

DoUpKey ==
    /\ Running
    /\ \E key \in {"up", "k"} : Deliver(KeyMsg(key), NotStarted)

DoDownKey ==
    /\ Running
    /\ \E key \in {"down", "j"} : Deliver(KeyMsg(key), NotStarted)

DoEnterKey ==
    /\ Running
    /\ \E key \in {"enter", " "} :
          \E r \in IF InvokesDiff(model, KeyMsg(key))
                    THEN TuiCommandResults(model.diffExec)
                    ELSE {NotStarted} :
             Deliver(KeyMsg(key), r)

DoEscKey ==
    /\ Running
    /\ Deliver(KeyMsg("esc"), NotStarted)

DoNextKey ==
    /\ Running
    /\ Deliver(KeyMsg("n"), NotStarted)

DoOtherKey ==
    /\ Running
    /\ Deliver(KeyMsg("x"), NotStarted)

NextTui ==
    \/ DoWindowSize
    \/ DoQuitKey
    \/ DoUpKey
    \/ DoDownKey
    \/ DoEnterKey
    \/ DoEscKey
    \/ DoNextKey
    \/ DoOtherKey

SpecTui == InitTui /\ [][NextTui]_vars

(***************************************************************************)
(* InteractiveCLI: Run hands the groups to handleGroup one after the       *)
(* other; handleGroup prints the group, reads a line and acts on it,       *)
(* calling itself to prompt again.  A line is a sequence of characters.    *)
(***************************************************************************)
MaxInputLines == 3

DigitValue(c) ==
    CHOOSE v \in 0..9 :
        <<"0", "1", "2", "3", "4", "5", "6", "7", "8", "9">>[v + 1] = c

\* the digits of s from position i on, read as a number after val
RECURSIVE ScanDigits(_, _, _)
ScanDigits(s, i, val) ==
    IF i <= Len(s) /\ s[i] \in Digits /\ val >= 0
    THEN ScanDigits(s, i + 1, val * 10 + DigitValue(s[i]))
    ELSE [val |-> val, next |-> i]

\* the verb %d at position i: an optional sign and one digit or more
ScanInt(s, i) ==
    LET signed == i <= Len(s) /\ s[i] \in {"-", "+"}
        start == IF signed THEN i + 1 ELSE i
        d == ScanDigits(s, start, 0)
    IN  IF d.next = start THEN [ok |-> FALSE, val |-> 0, next |-> i]
        ELSE [ok |-> TRUE,
              val |-> IF signed /\ s[i] = "-" THEN 0 - d.val ELSE d.val,
              next |-> d.next]

\* fmt.Sscanf(input, "%d-%d", &file1Num, &file2Num)
SscanfFileNumbers(s) ==
    LET a == ScanInt(s, 1)
        b == ScanInt(s, a.next + 1)
    IN  IF ~a.ok THEN [n |-> 0, file1Num |-> 0, file2Num |-> 0]
        ELSE IF a.next > Len(s) \/ s[a.next] # "-" \/ ~b.ok
        THEN [n |-> 1, file1Num |-> a.val, file2Num |-> 0]
        ELSE [n |-> 2, file1Num |-> a.val, file2Num |-> b.val]

\* fmt.Sscanf(input, "%d", &pairNum)
SscanfPairNumber(s) ==
    [err |-> ~ScanInt(s, 1).ok, pairNum |-> ScanInt(s, 1).val]

\* findFileIndex: the first Go index of file in grp, or -1
findFileIndex(grp, file) ==
    IF \E k \in DOMAIN grp : grp[k] = file
    THEN (CHOOSE k \in DOMAIN grp :
             grp[k] = file /\ \A l \in 1..(k - 1) : grp[l] # file) - 1
    ELSE -1

\* the key of pairs[k] in pairMap, as the two numbers it is printed from
PairKey(grp, pair) ==
    LET file1Idx == findFileIndex(grp, pair[1])
        file2Idx == findFileIndex(grp, pair[2])
    IN  IF file1Idx < file2Idx THEN <<file1Idx, file2Idx>>
        ELSE <<file2Idx, file1Idx>>

\* createPairMap: key -> Go index of the last pair stored under it
createPairMap(grp, ps) ==
    [key \in {PairKey(grp, ps[k]) : k \in DOMAIN ps} |->
        (CHOOSE k \in DOMAIN ps :
            /\ PairKey(grp, ps[k]) = key
            /\ \A l \in DOMAIN ps : PairKey(grp, ps[l]) = key => l <= k) - 1]

\* the test of line 92
InvalidFileNumbers(grp, file1Num, file2Num) ==
    \/ file1Num < 1 \/ file1Num > Len(grp)
    \/ file2Num < 1 \/ file2Num > Len(grp)
    \/ file1Num = file2Num

Reprompt == [do |-> "handleGroup"]

ShowDiff(file1, file2) == [do |-> "showDiff", file1 |-> file1, file2 |-> file2]

\* the default case of the switch on the input, up to the call of showDiff
Choose(grp, line) ==
    LET ps == generatePairs(grp)
        pairMap == createPairMap(grp, ps)
        fn == SscanfFileNumbers(line)
        pn == SscanfPairNumber(line)
        key == <<fn.file1Num - 1, fn.file2Num - 1>>
        rev == <<fn.file2Num - 1, fn.file1Num - 1>>
    IN  IF fn.n = 2
        THEN IF InvalidFileNumbers(grp, fn.file1Num, fn.file2Num)
             THEN Reprompt
             ELSE IF key \in DOMAIN pairMap
             THEN ShowDiff(ps[pairMap[key] + 1][1], ps[pairMap[key] + 1][2])
             ELSE IF rev \in DOMAIN pairMap
             THEN ShowDiff(ps[pairMap[rev] + 1][2], ps[pairMap[rev] + 1][1])
             ELSE Reprompt
        ELSE IF pn.err \/ pn.pairNum < 1 \/ pn.pairNum > Len(ps)
             THEN Reprompt
             ELSE ShowDiff(ps[pn.pairNum][1], ps[pn.pairNum][2])

IsQuitLine_AlsoNext(line) == line \in {<<"q">>, <<"Q">>, <<"n">>}

IsQuitLine(line) == line \in {<<"q">>, <<"Q">>}

IsNextLine(line) == line \in {<<"n">>, <<"N">>}

IsYesLine(line) == line \in {<<"y">>, <<"Y">>}

CliLines ==
    {<<"q">>, <<"n">>, <<"y">>, <<"x">>, <<"1">>, <<"4">>,
     <<"2", "-", "1">>, <<"1", "-", "1">>, <<"1", "-", "4">>}

CliGroupLists ==
    {<<>>,
     <<<<ReportTxt>>, <<Document1Txt, Document2Txt, DocumentTxt>>,
       <<File1Txt, FileTxt>>>>,
     <<<<>>, <<Report1Txt, ReportTxt>>>>}

\* what showDiff's call of DiffSideBySide can come to
CliCommandResults == CommandResults("diff", "-y", "one", "two") \cup {NotStarted}

InitCli ==
    /\ pc = "NewInteractiveCLI"
    /\ CliIdle
    /\ files = <<>>
    /\ minPrefixLength = 1
    /\ pattern = NoPattern
    /\ result = <<>>
    /\ ScratchIdle
    /\ UnionIdle
    /\ MainIdle
    /\ DiffIdle
    /\ TuiIdle
    /\ PairsIdle
    /\ RefilterIdle

CliFrame ==
    UNCHANGED <<files, minPrefixLength, pattern, result, scratchVars,
                mainVars, diffVars, tuiVars, pairVars, refilterVars,
                cliGroups, streamEnd, unionVars>>

\* NewInteractiveCLI(groups, diffExec): the groups to present and a scanner
\* over the standard input, which holds some lines and then ends
NewInteractiveCLI ==
    /\ pc = "NewInteractiveCLI"
    /\ cliGroups' \in CliGroupLists
    /\ linesLeft' \in 0..MaxInputLines
    /\ streamEnd' \in {"EOF", "read error"}
    /\ pc' = "Run"
    /\ UNCHANGED <<groupNum, scanText, presented, diffs, runRet>>
    /\ UNCHANGED <<files, minPrefixLength, pattern, result, scratchVars,
                   mainVars, diffVars, tuiVars, pairVars, refilterVars,
                   unionVars>>

\* Run returns err
Return(err) ==
    /\ pc' = "returned"
    /\ runRet' = err
    /\ groupNum' = groupNum

\* handleGroup returned nil: the loop of Run goes on
GroupDone ==
    IF groupNum < Len(cliGroups)
    THEN /\ pc' = "handleGroup"
         /\ groupNum' = groupNum + 1
         /\ runRet' = runRet
    ELSE Return("nil")

\* handleGroup calls itself for the same group
Again ==
    /\ pc' = "handleGroup"
    /\ groupNum' = groupNum
    /\ runRet' = runRet

\* cli.scanner.Scan() has no line to give and handleGroup returns
\* scanner.Err(): nil at the end of the input, the read error otherwise
ScanFails_PromptsAgain ==
    /\ linesLeft = 0
    /\ UNCHANGED <<linesLeft, scanText>>
    /\ Again

ScanFails ==
    /\ linesLeft = 0
    /\ UNCHANGED <<linesLeft, scanText>>
    /\ IF streamEnd = "EOF" THEN GroupDone ELSE Return("read error")

\* cli.scanner.Scan() reads a line and cli.scanner.Text() is that line
Scan(line) ==
    /\ linesLeft > 0
    /\ linesLeft' = linesLeft - 1
    /\ scanText' = line

\* Run, up to the first call of handleGroup
CliRun ==
    /\ pc = "Run"
    /\ IF Len(cliGroups) = 0 THEN Return("nil") ELSE GroupDone
    /\ UNCHANGED <<linesLeft, scanText, presented, diffs>>
    /\ CliFrame

\* handleGroup, up to the prompt
CliHandleGroup ==
    /\ pc = "handleGroup"
    /\ presented' = Append(presented, groupNum)
    /\ IF Len(generatePairs(cliGroups[groupNum])) = 0
       THEN GroupDone
       ELSE /\ pc' = "prompt"
            /\ UNCHANGED <<groupNum, runRet>>
    /\ UNCHANGED <<linesLeft, scanText, diffs>>
    /\ CliFrame

\* handleGroup, from the first Scan to the end of showDiff
CliPrompt ==
    /\ pc = "prompt"
    /\ \/ ScanFails /\ diffs' = diffs
       \/ \E line \in CliLines :
             /\ Scan(line)
             /\ IF IsQuitLine(line) THEN Return("user quit") /\ diffs' = diffs
                ELSE IF IsNextLine(line) THEN GroupDone /\ diffs' = diffs
                ELSE \E chosen \in {Choose(cliGroups[groupNum], line)} :
                        IF chosen = Reprompt THEN Again /\ diffs' = diffs
                        ELSE /\ diffs' = Append(diffs, <<chosen.file1,
                                                         chosen.file2>>)
                             /\ \E r \in CliCommandResults :
                                   IF DiffSideBySide(r).err # "nil"
                                   THEN Return("failed to generate diff")
                                   ELSE /\ pc' = "continue"
                                        /\ UNCHANGED <<groupNum, runRet>>
    /\ presented' = presented
    /\ CliFrame

\* "Press Enter to continue...": a line is read if there is one, and neither
\* the result of Scan nor the line is looked at
CliContinue ==
    /\ pc = "continue"
    /\ linesLeft' = IF linesLeft = 0 THEN 0 ELSE linesLeft - 1
    /\ pc' = "another"
    /\ UNCHANGED <<groupNum, runRet, scanText, presented, diffs>>
    /\ CliFrame

\* "View another pair in this group? (y/n)"
CliAnother ==
    /\ pc = "another"
    /\ \/ ScanFails
       \/ \E line \in CliLines :
             /\ Scan(line)
             /\ IF IsYesLine(line) THEN Again ELSE GroupDone
    /\ UNCHANGED <<presented, diffs>>
    /\ CliFrame

NextCli ==
    NewInteractiveCLI \/ CliRun \/ CliHandleGroup \/ CliPrompt \/ CliContinue \/ CliAnother

SpecCli == InitCli /\ [][NextCli]_vars /\ WF_vars(NextCli)

(***************************************************************************)
(* Matcher.Group step by step: one step for the start, for each test of a  *)
(* pair, for each call of findRoot, for each merge and for each file of    *)
(* the collection pass.  Indices count from 1: groupID[x] = x here is      *)
(* groupID[x-1] = x-1 in the code.                                         *)
(***************************************************************************)
UnionPaths ==
    { <<"a", "b">>, <<"a", "b", ".", "c">>, <<"b">>, <<"x", "/", "a", "b">> }
UnionFileLists == UNION {[1..n -> UnionPaths] : n \in 0..MaxFiles}

InitUnion ==
    /\ pc = "Group"
    /\ files \in UnionFileLists
    /\ minPrefixLength \in 1..MaxMinPrefix
    /\ pattern = NoPattern
    /\ result = <<>>
    /\ ScratchIdle
    /\ MainIdle
    /\ DiffIdle
    /\ TuiIdle
    /\ PairsIdle
    /\ RefilterIdle
    /\ CliIdle
    /\ UnionIdle

UnionFrame ==
    UNCHANGED <<files, minPrefixLength, pattern, scratchVars, mainVars,
                diffVars, tuiVars, pairVars, refilterVars, cliVars>>

Union_UnderJ(groupID, rootI, rootJ) == [groupID EXCEPT ![rootI] = rootJ]

\* groupID[rootJ] = rootI
Union(groupID, rootI, rootJ) == [groupID EXCEPT ![rootJ] = rootI]

\* the next pair of the two loops; the inner loop of the last file is empty
NextPair ==
    IF ufJ < Len(files)
    THEN /\ ufI' = ufI
         /\ ufJ' = ufJ + 1
         /\ pc' = "pair"
    ELSE IF ufI + 1 < Len(files)
    THEN /\ ufI' = ufI + 1
         /\ ufJ' = ufI + 2
         /\ pc' = "pair"
    ELSE /\ ufI' = 1
         /\ ufJ' = ufJ
         /\ pc' = "collect"

\* Group, up to the pairwise pass: nil for fewer than two files
GroupStart ==
    /\ pc = "Group"
    /\ IF Len(files) < 2
       THEN /\ pc' = "grouped"
            /\ UNCHANGED unionVars
       ELSE /\ pc' = "pair"
            /\ ufGroupID' = [x \in 1..Len(files) |-> x]
            /\ ufGroups' = [x \in 1..Len(files) |-> <<>>]
            /\ ufI' = 1
            /\ ufJ' = 2
            /\ UNCHANGED <<ufRootI, ufRootJ>>
    /\ result' = result
    /\ UnionFrame

\* the test of one pair
TestPair ==
    /\ pc = "pair"
    /\ IF sharePrefix(Filenames(files)[ufI], Filenames(files)[ufJ],
                      minPrefixLength)
       THEN /\ pc' = "rootI"
            /\ UNCHANGED <<ufI, ufJ>>
       ELSE NextPair
    /\ UNCHANGED <<ufGroupID, ufRootI, ufRootJ, ufGroups, result>>
    /\ UnionFrame

\* rootI := findRoot(groupID, i)
FindRootI ==
    /\ pc = "rootI"
    /\ ufGroupID' = findRoot(ufGroupID, ufI).groupID
    /\ ufRootI' = findRoot(ufGroupID, ufI).root
    /\ pc' = "rootJ"
    /\ UNCHANGED <<ufI, ufJ, ufRootJ, ufGroups, result>>
    /\ UnionFrame

\* rootJ := findRoot(groupID, j)
FindRootJ ==
    /\ pc = "rootJ"
    /\ ufGroupID' = findRoot(ufGroupID, ufJ).groupID
    /\ ufRootJ' = findRoot(ufGroupID, ufJ).root
    /\ pc' = "merge"
    /\ UNCHANGED <<ufI, ufJ, ufRootI, ufGroups, result>>
    /\ UnionFrame

\* if rootI != rootJ { groupID[rootJ] = rootI }
Merge ==
    /\ pc = "merge"
    /\ ufGroupID' = IF ufRootI # ufRootJ
                    THEN Union(ufGroupID, ufRootI, ufRootJ)
                    ELSE ufGroupID
    /\ NextPair
    /\ UNCHANGED <<ufRootI, ufRootJ, ufGroups, result>>
    /\ UnionFrame

\* the collection pass, one file at a time, and the groups of two files or
\* more in the order of a range over the map
Collect ==
    /\ pc = "collect"
    /\ IF ufI <= Len(files)
       THEN /\ ufGroupID' = findRoot(ufGroupID, ufI).groupID
            /\ ufGroups' = [ufGroups EXCEPT ![findRoot(ufGroupID, ufI).root] =
                                Append(@, files[ufI])]
            /\ ufI' = ufI + 1
            /\ UNCHANGED <<pc, result>>
       ELSE /\ \E o \in MapOrders({r \in 1..Len(files) :
                                     Len(ufGroups[r]) >= 2}) :
                  result' = [k \in DOMAIN o |-> ufGroups[o[k]]]
            /\ pc' = "grouped"
            /\ UNCHANGED <<ufGroupID, ufGroups, ufI>>
    /\ UNCHANGED <<ufJ, ufRootI, ufRootJ>>
    /\ UnionFrame

NextUnion ==
    GroupStart \/ TestPair \/ FindRootI \/ FindRootJ \/ Merge \/ Collect

SpecUnion == InitUnion /\ [][NextUnion]_vars

(***************************************************************************)
(* Properties of Matcher.Group, checked under SpecGroup.                   *)
(***************************************************************************)
Range(s) == {s[k] : k \in DOMAIN s}

\* a and b agree on their first k characters
HasCommonPrefixOfLength(a, b, k) ==
    Len(a) >= k /\ Len(b) >= k /\ \A t \in 1..k : a[t] = b[t]

\* the files at two different positions of the input have base filenames
\* whose longest common prefix has at least minPrefixLength characters
Related(i, j) ==
    i # j /\ HasCommonPrefixOfLength(Base(files[i]), Base(files[j]), minPrefixLength)

\* the positions a chain of related files links to a position of S
RECURSIVE LinkedTo(_)
LinkedTo(S) ==
    LET T == S \cup {j \in DOMAIN files : \E i \in S : Related(i, j)}
    IN  IF T = S THEN S ELSE LinkedTo(T)

Components == {LinkedTo({i}) : i \in DOMAIN files}

\* the paths at the positions C of the input, in input order
PathsAt(C) ==
    LET RECURSIVE from(_)
        from(i) == IF i > Len(files) THEN <<>>
                   ELSE IF i \in C THEN <<files[i]>> \o from(i + 1)
                   ELSE from(i + 1)
    IN  from(1)

\* C1: the groups returned by Matcher.Group are pairwise disjoint, each has
\* at least 2 entries, and every entry is a path of the input list
C1_Partition ==
    pc = "grouped" =>
        /\ \A g \in DOMAIN result : Len(result[g]) >= 2
        /\ \A g, h \in DOMAIN result :
              g # h => Range(result[g]) \cap Range(result[h]) = {}
        /\ \A g \in DOMAIN result : Range(result[g]) \subseteq Range(files)

C1_Witness ==
    /\ pc = "grouped"
    /\ Len(result) >= 2
    /\ \E i, j \in DOMAIN files : i # j /\ files[i] = files[j]

\* C2: the returned groups are exactly the connected components of size >= 2
\* of the relation "longest common prefix of the base filenames has length
\* >= minPrefixLength"; a file related to no other file is in no group
C2_ConnectedComponents ==
    pc = "grouped" =>
        LET large == {C \in Components : Cardinality(C) >= 2}
        IN  /\ Range(result) = {PathsAt(C) : C \in large}
            /\ Len(result) = Cardinality(large)
            /\ \A i \in DOMAIN files :
                  (\A j \in DOMAIN files : ~Related(i, j))
                      => \A g \in DOMAIN result : files[i] \notin Range(result[g])

C2_Witness ==
    /\ pc = "grouped"
    /\ \E g \in DOMAIN result : Cardinality(Range(result[g])) >= 3
    /\ \E i \in DOMAIN files : \A j \in DOMAIN files : ~Related(i, j)

\* a group of r holds two files whose base filenames share no prefix of
\* length m
HasIndirectPair(r, m) ==
    \E g \in DOMAIN r : \E A, C \in Range(r[g]) :
        ~HasCommonPrefixOfLength(Base(A), Base(C), m)

\* C3 as stated: some input makes Matcher.Group return a group with two files
\* that do not themselves share a prefix of length minPrefixLength.  The
\* statement is about the function, so it is the same after every call.
C3_SomeInputGroupsIndirectly ==
    pc = "grouped" =>
        \E fs \in FileLists, m \in 1..MaxMinPrefix :
            \E r \in Group(fs, m) : HasIndirectPair(r, m)

\* C3, amended: any two files of a returned group have base filenames that
\* themselves share a prefix of length minPrefixLength
C3_GroupedPairsShareAPrefix ==
    pc = "grouped" => ~HasIndirectPair(result, minPrefixLength)

C3_Witness ==
    /\ pc = "grouped"
    /\ \E g \in DOMAIN result :
          Cardinality({Base(result[g][k]) : k \in DOMAIN result[g]}) >= 3

(***************************************************************************)
(* Properties of filterFilesBySuffix and isLikelyDatePattern, checked      *)
(* under SpecFilter and SpecDate.  The matching and the three heuristics   *)
(* are stated on the characters of the strings, without the regexp model.  *)
(***************************************************************************)
\* stem[p..] is the separator followed by lo..hi digits, up to the end of stem
IsSuffixMatch(re, stem, p) ==
    /\ stem[p] = re.sep
    /\ Len(stem) - p >= re.lo
    /\ re.hi = -1 \/ Len(stem) - p <= re.hi
    /\ \A t \in (p + 1)..Len(stem) : stem[t] \in Digits

\* the stem has a match of the pattern that ends at the end of the stem
EndsWithAMatchOf(re, stem) == \E p \in 1..Len(stem) : IsSuffixMatch(re, stem, p)

\* the stem minus that match
Residual(re, stem) ==
    SubSeq(stem, 1, (CHOOSE p \in 1..Len(stem) : IsSuffixMatch(re, stem, p)) - 1)

\* heuristic 1: s ends in a hyphen followed by one or more digits
EndsInHyphenDigits(s) ==
    \E p \in 1..(Len(s) - 1) :
        s[p] = "-" /\ \A t \in (p + 1)..Len(s) : s[t] \in Digits

\* where the occurrences of hyphen-followed-by-digits start in s
HyphenDigitStarts(s) == {p \in 1..(Len(s) - 1) : s[p] = "-" /\ s[p + 1] \in Digits}

\* heuristic 3: some occurrence has four or more digits
HasLongNumber(s) ==
    \E p \in HyphenDigitStarts(s) :
        p + 4 <= Len(s) /\ \A t \in (p + 1)..(p + 4) : s[t] \in Digits

DateLike(stem, bn) ==
    \/ EndsInHyphenDigits(bn)
    \/ Cardinality(HyphenDigitStarts(stem)) >= 3
    \/ HasLongNumber(stem)

\* the input file at position i has a match at the end of its stem that is
\* classified version-like
Accepted(i) ==
    /\ EndsWithAMatchOf(pattern, Stem(files[i]))
    /\ ~isLikelyDatePattern(Stem(files[i]), Residual(pattern, Stem(files[i])))

MatchedFiles == {matchingFiles[k].file : k \in DOMAIN matchingFiles}

\* C4: with a pattern, the result holds exactly the accepted files and the
\* files whose stem is the base name of an accepted file
C4_AcceptedAndTheirBaseFiles ==
    (pc = "filtered" /\ pattern # NoPattern) =>
        LET accepted == {i \in DOMAIN files : Accepted(i)}
        IN  Range(filtered) =
                {files[i] : i \in accepted}
                \cup {files[j] : j \in {j \in DOMAIN files : \E i \in accepted :
                                   Stem(files[j]) = Residual(pattern, Stem(files[i]))}}

\* C5: a file is a pattern match only when a match ends at the end of its
\* stem; under "hyphen + 1-2 digits" document-1 and document-2 are matches
\* and are returned, file-1-backup and document-1-backup are no matches
C5_MatchEndsAtEndOfStem ==
    (pc = "filtered" /\ pattern # NoPattern) =>
        /\ \A f \in MatchedFiles : EndsWithAMatchOf(pattern, Stem(f))
        /\ pattern \in HyphenDigits12 =>
              \A i \in DOMAIN files :
                  /\ Stem(files[i]) \in {Stem(Document1Txt), Stem(Document2Txt)}
                        => files[i] \in MatchedFiles /\ files[i] \in Range(filtered)
                  /\ Stem(files[i]) \in {Stem(File1BackupTxt), Stem(Document1BackupTxt)}
                        => files[i] \notin MatchedFiles /\ files[i] \notin Range(filtered)

C5_Witness ==
    /\ pc = "filtered"
    /\ pattern \in HyphenDigits12
    /\ ~pattern.anchored
    /\ {Document1Txt, Document1BackupTxt} \subseteq Range(files)
    /\ Document1Txt \in MatchedFiles
    /\ Document1BackupTxt \notin Range(filtered)

\* C6: isLikelyDatePattern(stem, baseName) is true exactly when baseName ends
\* in hyphen+digits, or stem has three or more hyphen+digits occurrences, or
\* one of them has four or more digits
C6_ThreeHeuristics ==
    pc = "classified" => (verdict <=> DateLike(baseFilename, baseName))

C6_Witness ==
    /\ pc = "classified"
    /\ verdict
    /\ HasLongNumber(baseFilename)
    /\ ~EndsInHyphenDigits(baseName)
    /\ Cardinality(HyphenDigitStarts(baseFilename)) < 3

\* C7: a file whose match at the end of the stem is classified date-like is
\* not in the result
C7_DateLikeFilesAreDropped ==
    (pc = "filtered" /\ pattern # NoPattern) =>
        \A i \in DOMAIN files :
            ( /\ EndsWithAMatchOf(pattern, Stem(files[i]))
              /\ DateLike(Stem(files[i]), Residual(pattern, Stem(files[i]))) )
                => files[i] \notin Range(filtered)

\* C8: with a pattern, the result holds each path at most once
C8_NoPathTwice ==
    (pc = "filtered" /\ pattern # NoPattern) =>
        \A k1, k2 \in DOMAIN filtered : k1 # k2 => filtered[k1] # filtered[k2]

C8_Witness ==
    /\ pc = "filtered"
    /\ pattern # NoPattern
    /\ \E i, j \in DOMAIN files :
          i # j /\ files[i] = files[j] /\ files[i] \in Range(filtered) \ MatchedFiles
    /\ MatchedFiles # {}

\* C9: without a pattern the input list is returned as it is
C9_NilPatternReturnsInput ==
    (pc = "filtered" /\ pattern = NoPattern) => filtered = files

C9_Witness ==
    /\ pc = "filtered"
    /\ pattern = NoPattern
    /\ \E i, j \in DOMAIN files : i # j /\ files[i] = files[j]
    /\ Report2024Txt \in Range(filtered)

\* C10: every returned path is a path of the input; the accepted matches are
\* returned also when no file has their base name, so document-1.txt and
\* document-2.txt alone yield exactly those two
C10_NoFabricatedPath ==
    pc = "filtered" =>
        /\ Range(filtered) \subseteq Range(files)
        /\ pattern # NoPattern => MatchedFiles \subseteq Range(filtered)
        /\ (pattern \in HyphenDigits12 /\ Range(files) = {Document1Txt, Document2Txt})
              => Range(filtered) = {Document1Txt, Document2Txt}

C10_Witness ==
    /\ pc = "filtered"
    /\ pattern \in HyphenDigits12
    /\ files = <<Document1Txt, Document2Txt>>
    /\ filtered = <<Document1Txt, Document2Txt>>

(***************************************************************************)
(* The examples of the filter: reports, nested versions, dates.            *)
(***************************************************************************)
ReportsGiven ==
    /\ pc = "filtered"
    /\ pattern \in HyphenDigits12
    /\ Len(files) = 3
    /\ Range(files) = {ReportTxt, Report1Txt, Report2024Txt}

\* C11 (as stated): of report.txt, report-1.txt and report-2024.txt the
\* pattern "hyphen + 1-2 digits" keeps exactly report.txt and report-1.txt,
\* and report-2024.txt is dropped by the date classifier: its stem has a
\* match at its end, is handed to isLikelyDatePattern and is skipped there.
C11_Report2024SkippedByClassifier ==
    ReportsGiven =>
        /\ Range(filtered) = {ReportTxt, Report1Txt}
        /\ EndsWithAMatchOf(pattern, Stem(Report2024Txt))
        /\ Report2024Txt \in rejected

\* C11 (amended): of report.txt, report-1.txt and report-2024.txt the
\* pattern "hyphen + 1-2 digits" keeps exactly report.txt and report-1.txt;
\* report-2024.txt is dropped because no match of the pattern ends at the
\* end of its stem, so it never reaches isLikelyDatePattern.
C11_Report2024DoesNotMatch ==
    ReportsGiven =>
        /\ Range(filtered) = {ReportTxt, Report1Txt}
        /\ Len(filtered) = 2
        /\ ~EndsWithAMatchOf(pattern, Stem(Report2024Txt))
        /\ Report2024Txt \notin rejected

C11_Witness ==
    /\ ReportsGiven
    /\ pattern.anchored
    /\ filtered = <<Report1Txt, ReportTxt>>
    /\ rejected = {}

NestedGiven ==
    /\ pc = "filtered"
    /\ pattern \in HyphenDigits12
    /\ File12Txt \in Range(files)

\* C12: under "hyphen + 1-2 digits" the nested version file-1-2, whose
\* residual file-1 ends in hyphen+digits, is classified date-like and is not
\* in the result, also when file.txt, file-1.txt and file-2.txt are in the
\* input, and these three are then all returned.
C12_NestedVersionIsDropped ==
    NestedGiven =>
        /\ isLikelyDatePattern(Stem(File12Txt), File \o <<"-", "1">>)
        /\ File12Txt \notin Range(filtered)
        /\ pattern.anchored => File12Txt \in rejected
        /\ {FileTxt, File1Txt, File2Txt} \subseteq Range(files)
              => {FileTxt, File1Txt, File2Txt} \subseteq Range(filtered)

C12_Witness ==
    /\ NestedGiven
    /\ pattern.anchored
    /\ {FileTxt, File1Txt, File2Txt} \subseteq Range(files)
    /\ Range(filtered) = {FileTxt, File1Txt, File2Txt}
    /\ File12Txt \in rejected

\* C13: with the pattern "hyphen + one or more digits" (-\d+, with or without
\* the $ that main appends) the files whose stems carry a date suffix,
\* report-2024 and document-2026-01-30, are in the filter result.
C13_DateSuffixesAreIncluded ==
    (/\ pc = "filtered"
     /\ pattern # NoPattern
     /\ pattern.sep = "-"
     /\ pattern.hi = -1)
        => \A i \in DOMAIN files :
              files[i] \in {Report2024Txt, DocumentDateTxt}
                 => files[i] \in Range(filtered)

(***************************************************************************)
(* Short inputs.                                                           *)
(***************************************************************************)
\* C14 (as stated): of fewer than two files filterFilesBySuffix returns
\* nothing.
C14_FewerThanTwoGivesNothing ==
    (pc = "filtered" /\ Len(files) < 2) => filtered = <<>>

\* C14 (amended): of fewer than two files filterFilesBySuffix returns the
\* input itself when there is no pattern or the one file is a matching file,
\* and nothing otherwise; the empty input gives the empty result.
C14_FewerThanTwoKeepsAMatch ==
    (pc = "filtered" /\ Len(files) < 2) =>
        filtered = IF pattern = NoPattern \/ Range(files) \subseteq MatchedFiles
                   THEN files
                   ELSE <<>>

C14_Witness ==
    /\ pc = "filtered"
    /\ pattern # NoPattern
    /\ files = <<Document1Txt>>
    /\ filtered = <<Document1Txt>>

(***************************************************************************)
(* Further properties of Matcher.Group, checked under SpecGroup.           *)
(***************************************************************************)
NoTwoRelated == \A i, j \in DOMAIN files : ~Related(i, j)

\* C15: Matcher.Group returns the empty result when it is given fewer than
\* two files, and when no two base filenames of the input share a common
\* prefix of length >= minPrefixLength.
C15_NothingToGroup ==
    (pc = "grouped" /\ (Len(files) < 2 \/ NoTwoRelated)) => result = <<>>

C15_Witness ==
    /\ pc = "grouped"
    /\ Cardinality(Range(files)) >= 2
    /\ NoTwoRelated
    /\ result = <<>>

\* the groups of a result as sets of paths
GroupSets(r) == {Range(r[g]) : g \in DOMAIN r}

\* C16: Matcher.Group run again on the concatenation of the groups it
\* returned, given once or twice over, returns groups that are the same sets
\* of paths as before.
C16_GroupingIsIdempotent ==
    pc = "regrouped" => GroupSets(regrouped) = GroupSets(result)

C16_Witness ==
    /\ pc = "regrouped"
    /\ \E g \in DOMAIN result : Cardinality(Range(result[g])) >= 2
    /\ Len(again) = 2 * Len(Concat(result))
    /\ Len(Concat(result)) < Len(files)
    /\ GroupSets(regrouped) = GroupSets(result)

\* s is t with some elements left out
RECURSIVE IsSubsequence(_, _)
IsSubsequence(s, t) ==
    IF s = <<>> THEN TRUE
    ELSE IF t = <<>> THEN FALSE
    ELSE IF Head(s) = Head(t) THEN IsSubsequence(Tail(s), Tail(t))
    ELSE IsSubsequence(s, Tail(t))

\* C17: in every group returned by Matcher.Group the files are in the order
\* they have in the input, whatever the order of the groups.
C17_InputOrderWithinGroups ==
    pc = "grouped" => \A g \in DOMAIN result : IsSubsequence(result[g], files)

C17_Witness ==
    /\ pc = "grouped"
    /\ Len(result) = 2
    /\ \E i, j \in DOMAIN files :
          i < j /\ files[i] \in Range(result[2]) /\ files[j] \in Range(result[1])
    /\ \E g \in DOMAIN result : Cardinality(Range(result[g])) >= 2

\* directories a path may be moved to
Dirs == {<<>>, <<"z", "/", "y", "/">>}

\* the groups of a result r of the input fs, as sets of positions of fs
PositionsOf(r, fs) ==
    {{i \in DOMAIN fs : fs[i] \in Range(r[g])} : g \in DOMAIN r}

\* the files of fs, all moved to the directory d
RECURSIVE AllIn(_, _)
AllIn(d, fs) ==
    IF fs = <<>> THEN <<>> ELSE <<d \o Base(Head(fs))>> \o AllIn(d, Tail(fs))

InOneGroup(i, j) ==
    \E g \in DOMAIN result : {files[i], files[j]} \subseteq Range(result[g])

\* C18: the grouping depends on the base filenames only: moving any one
\* input path, or all of them, to another directory leaves the groups the
\* same sets of positions; two paths with the same base filename of length
\* >= minPrefixLength are in one group, and so are two files that differ
\* only in the extension and whose stem has length >= minPrefixLength.
C18_OnlyBaseNamesMatter ==
    pc = "grouped" =>
        /\ \A before \in {PositionsOf(result, files)} :
              \A moved \in {[files EXCEPT ![i] = d \o Base(@)] :
                                i \in DOMAIN files, d \in Dirs}
                            \cup {AllIn(d, files) : d \in Dirs} :
                 \A r \in Group(moved, minPrefixLength) :
                    PositionsOf(r, moved) = before
        /\ \A i, j \in DOMAIN files :
              (/\ i # j
               /\ Base(files[i]) = Base(files[j])
               /\ Len(Base(files[i])) >= minPrefixLength) => InOneGroup(i, j)
        /\ \A i, j \in DOMAIN files :
              (/\ i # j
               /\ Stem(files[i]) = Stem(files[j])
               /\ Len(Stem(files[i])) >= minPrefixLength) => InOneGroup(i, j)

C18_Witness ==
    /\ pc = "grouped"
    /\ \E i, j \in DOMAIN files :
          /\ files[i] # files[j]
          /\ Base(files[i]) = Base(files[j])
          /\ InOneGroup(i, j)
    /\ \E i, j \in DOMAIN files :
          /\ Ext(files[i]) # Ext(files[j])
          /\ Ext(files[i]) # <<>>
          /\ Ext(files[j]) # <<>>
          /\ Stem(files[i]) = Stem(files[j])
          /\ InOneGroup(i, j)

(***************************************************************************)
(* commonPrefix, checked under SpecPrefix.                                 *)
(***************************************************************************)
IsPrefixOf(p, s) == Len(p) <= Len(s) /\ \A t \in 1..Len(p) : p[t] = s[t]

\* C19: commonPrefix(a, b) is the longest string that is a prefix of both:
\* it is the shorter argument when that is a prefix of the other, it is empty
\* when an argument is empty or the first characters differ, and it is the
\* same for (b, a).
C19_LongestCommonPrefix ==
    pc = "compared" =>
        /\ IsPrefixOf(prefix, strA)
        /\ IsPrefixOf(prefix, strB)
        /\ \A p \in PrefixStrings :
              IsPrefixOf(p, strA) /\ IsPrefixOf(p, strB) => Len(p) <= Len(prefix)
        /\ IsPrefixOf(strA, strB) => prefix = strA
        /\ IsPrefixOf(strB, strA) => prefix = strB
        /\ (strA = <<>> \/ strB = <<>>) => prefix = <<>>
        /\ (strA # <<>> /\ strB # <<>> /\ strA[1] # strB[1]) => prefix = <<>>
        /\ prefix = prefixBA

C19_Witness ==
    /\ pc = "compared"
    /\ Len(prefix) >= 2
    /\ Len(prefix) < Len(strA)
    /\ Len(strA) < Len(strB)
    /\ prefix = prefixBA

(***************************************************************************)
(* The order of the filter result.                                         *)
(***************************************************************************)
\* the first position of the input that holds the path f
FirstIndex(f) ==
    CHOOSE i \in DOMAIN files :
        files[i] = f /\ \A j \in 1..(i - 1) : files[j] # f

\* C20: with a pattern, the result lists the matching files before the base
\* files that were added for them, and each of the two parts is in the order
\* of the files' first occurrence in the input.
C20_MatchesThenBaseFiles ==
    (pc = "filtered" /\ pattern # NoPattern) =>
        \A k1, k2 \in DOMAIN filtered :
            k1 < k2 =>
                /\ filtered[k2] \in MatchedFiles => filtered[k1] \in MatchedFiles
                /\ (filtered[k1] \in MatchedFiles <=> filtered[k2] \in MatchedFiles)
                      => FirstIndex(filtered[k1]) < FirstIndex(filtered[k2])

C20_Witness ==
    /\ pc = "filtered"
    /\ pattern # NoPattern
    /\ Len(matchingFiles) >= 2
    /\ \E k1, k2 \in DOMAIN filtered :
          /\ k1 < k2
          /\ filtered[k1] \in MatchedFiles
          /\ filtered[k2] \notin MatchedFiles
          /\ FirstIndex(filtered[k2]) < FirstIndex(filtered[k1])

(***************************************************************************)
(* Properties of main and run, checked under SpecMain.                     *)
(***************************************************************************)
RunReturned == pc \in {"main:return", "done"} /\ "run" \in called

\* C21: when fewer than two files remain after the scan and the filter, or
\* the grouping yields no group, run returns nil and the UI is not started;
\* the UI is started only with at least one group, every group of two files
\* or more, and Group is not called with fewer than two files.
C21_NothingFoundIsNoError ==
    /\ (/\ RunReturned
        /\ "Scan" \in called
        /\ runErr # "scan"
        /\ (Len(files) < 2 \/ ("Group" \in called /\ Len(result) = 0)))
          => /\ runErr = "nil"
             /\ "tea.Program.Run" \notin called
             /\ pc = "done" => exitStatus = 0
    /\ "tea.Program.Run" \in called
          => /\ Len(result) >= 1
             /\ \A g \in DOMAIN result : Len(result[g]) >= 2
    /\ "Group" \in called => Len(files) >= 2

C21_Witness ==
    /\ pc = "done"
    /\ "filterFilesBySuffix" \in called
    /\ Len(files) = 1
    /\ "Group" \notin called
    /\ exitStatus = 0

CoreFunctions == {"run", "Scan", "filterFilesBySuffix", "Group"}

\* run and the functions below it are entered only with a directory, a
\* min-prefix >= 1 and a pattern that compiled (anchored at the end)
ValidatedBeforeRun ==
    /\ called \cap CoreFunctions # {} => "run" \in called
    /\ "run" \in called =>
          /\ dirStat = "dir"
          /\ minPrefixLength >= 1
          /\ suffixPattern # InvalidFlag
          /\ suffixPattern = EmptyFlag => pattern = NoPattern
          /\ suffixPattern # EmptyFlag =>
                pattern = Anchor(suffixPattern) /\ pattern.anchored

InvalidConfiguration == minPrefixLength < 1 \/ suffixPattern = InvalidFlag

\* C22 (as stated): run is entered only after the directory, min-prefix and
\* pattern checks passed, and with min-prefix < 1 or a pattern that does not
\* compile main exits with an error status without entering run.
C22_InvalidConfigurationExitsWithError ==
    /\ ValidatedBeforeRun
    /\ InvalidConfiguration =>
          /\ "run" \notin called
          /\ pc = "done" => exitStatus = 1

\* C22 (amended): run is entered only after the directory, min-prefix and
\* pattern checks passed; with min-prefix < 1 or a pattern that does not
\* compile run is never entered, and main exits with an error status unless
\* --version or --help was given, which end main with status 0 before any
\* check.
C22_InvalidConfigurationNeverRuns ==
    /\ ValidatedBeforeRun
    /\ InvalidConfiguration =>
          /\ "run" \notin called
          /\ pc = "done" =>
                exitStatus = IF showVersion \/ showHelp THEN 0 ELSE 1

C22_Witness ==
    /\ pc = "done"
    /\ ~showVersion
    /\ ~showHelp
    /\ dirStat = "dir"
    /\ minPrefixLength >= 1
    /\ suffixPattern = InvalidFlag
    /\ exitStatus = 1
    /\ called = {}

(***************************************************************************)
(* Properties of DiffExecutor, checked under SpecDiff.                     *)
(***************************************************************************)

\* C28: FilesIdentical returns (true, no error) exactly when the command
\* exits with status 0, (false, no error) exactly when it exits with status
\* 1, and an error for every other exit status and when the command cannot
\* be executed.
C28_FilesIdenticalByExitStatus ==
    pc = "FilesIdentical" =>
        /\ (ret = [identical |-> TRUE, err |-> "nil"])
              <=> (cmdResult.started /\ cmdResult.status = 0)
        /\ (ret = [identical |-> FALSE, err |-> "nil"])
              <=> (cmdResult.started /\ cmdResult.status = 1)
        /\ ret.err # "nil"
              <=> (~cmdResult.started \/ cmdResult.status \notin {0, 1})

C28_Witness ==
    /\ pc = "FilesIdentical"
    /\ diffCmd = "diff"
    /\ "missing" \in {content1, content2}
    /\ cmdResult.status = 2
    /\ ret.err = "diff command failed"

\* C29: DiffSideBySide and DiffUnified return the command's output when the
\* files are identical or differ, and an error when the command cannot be
\* executed or exits with a status other than 0 or 1.
C29_TroubleStatusIsAnError ==
    pc \in {"DiffSideBySide", "DiffUnified"} =>
        IF cmdResult.started /\ cmdResult.status \in {0, 1}
        THEN ret = [output |-> cmdResult.output, err |-> "nil"]
        ELSE ret.err # "nil"

(***************************************************************************)
(* Properties of generatePairs, checked under SpecPairs.                   *)
(***************************************************************************)

\* the pairs whose files come from positions i and j of the group
PairsOfPositions(i, j) ==
    {k \in 1..Len(pairs) : pairs[k] = <<group[i], group[j]>>}

\* the place of the pair (i, j), i < j, when the pairs of n positions are
\* listed by i and then by j
PairIndex(n, i, j) == (i - 1) * n - ((i - 1) * i) \div 2 + (j - i)

\* C30: for a group of n files generatePairs returns exactly n*(n-1)/2
\* pairs of length 2, one for each pair of positions i < j, holding
\* group[i] and group[j]; a group of 0 or 1 files yields no pair.
C30_EveryPairOfPositionsOnce ==
    pc = "generatePairs" =>
        \A n \in {Len(group)} :
            /\ Len(pairs) = (n * (n - 1)) \div 2
            /\ \A k \in 1..Len(pairs) : Len(pairs[k]) = 2
            /\ \A i \in 1..n : \A j \in (i + 1)..n :
                  /\ PairIndex(n, i, j) \in PairsOfPositions(i, j)
                  /\ \A i2 \in 1..n : \A j2 \in (i2 + 1)..n :
                        PairIndex(n, i, j) = PairIndex(n, i2, j2)
                            => <<i, j>> = <<i2, j2>>
            /\ n <= 1 => pairs = <<>>

C30_Witness ==
    /\ pc = "generatePairs"
    /\ Len(group) = 4
    /\ Len(pairs) = 6
    /\ Cardinality({group[i] : i \in 1..Len(group)}) = 3

(***************************************************************************)
(* Properties of the TUI, checked under SpecTui.                           *)
(***************************************************************************)

\* the message just handled is one of these keys
Pressed(keys) == msg.type = "KeyMsg" /\ msg.key \in keys

\* the step hands one of these keys to Update
Pressing(keys) == msg'.type = "KeyMsg" /\ msg'.key \in keys

\* C23: in group selection, Enter opens first-file selection for the group
\* under the cursor: the current group afterwards is the highlighted group.
C23_EnterOpensHighlightedGroup ==
    [][Pressing({"enter", " "}) /\ model.state = "stateSelectGroup"
          => /\ model'.state = "stateSelectFirstFile"
             /\ model'.currentGroup = model.cursor]_vars

\* C24: in second-file selection the cursor never rests on the file chosen
\* as first file.
C24_CursorNeverOnFirstFile ==
    model.state = "stateSelectSecondFile" => ~OnFirstFile(model, model.cursor)

\* C25: Esc goes back one screen: from the diff view to second-file
\* selection (first file kept, second file and diff output cleared), from
\* second-file selection to first-file selection (first file cleared), from
\* first-file selection to group selection, each time with the cursor at 0
\* and the current group unchanged; in group selection Esc changes nothing;
\* Esc never quits.
C25_EscGoesBackOneScreen ==
    [][Pressing({"esc"})
          => /\ cmd' = "nil"
             /\ model'.currentGroup = model.currentGroup
             /\ model'.groups = model.groups
             /\ model.state = "stateViewDiff"
                   => /\ model'.state = "stateSelectSecondFile"
                      /\ model'.firstFile = model.firstFile
                      /\ model'.secondFile = <<>>
                      /\ model'.diffOutput = ""
                      /\ model'.cursor = 0
             /\ model.state = "stateSelectSecondFile"
                   => /\ model'.state = "stateSelectFirstFile"
                      /\ model'.firstFile = <<>>
                      /\ model'.cursor = 0
             /\ model.state = "stateSelectFirstFile"
                   => /\ model'.state = "stateSelectGroup"
                      /\ model'.cursor = 0
             /\ model.state = "stateSelectGroup" => model' = model]_vars

C25_Witness ==
    /\ Pressed({"esc"})
    /\ model.state = "stateSelectSecondFile"
    /\ model.firstFile # <<>>
    /\ model.secondFile = <<>>
    /\ model.currentGroup = 1

\* C26: in every state of the TUI the keys q and ctrl+c give the quit
\* command and leave the model as it was.
C26_QuitKeysQuit ==
    [][Pressing({"q", "ctrl+c"})
          => /\ model.state \in {"stateSelectGroup", "stateSelectFirstFile",
                                 "stateSelectSecondFile", "stateViewDiff"}
             /\ cmd' = "tea.Quit"
             /\ model' = model]_vars

C26_Witness ==
    /\ Pressed({"q"})
    /\ cmd = "tea.Quit"
    /\ model.state = "stateViewDiff"
    /\ model.diffOutput # ""

\* C27: the current group changes only by the key n in group selection,
\* which advances it by one and never past the last group; it stays within
\* 0 <= currentGroup < number of groups and never decreases.
C27_OnlyNextAdvancesCurrentGroup ==
    /\ [](model.currentGroup \in 0..(Len(model.groups) - 1))
    /\ [][/\ model'.currentGroup >= model.currentGroup
          /\ model'.currentGroup # model.currentGroup
                => /\ Pressing({"n"})
                   /\ model.state = "stateSelectGroup"
                   /\ model'.currentGroup = model.currentGroup + 1
          /\ (/\ Pressing({"n"})
              /\ model.state = "stateSelectGroup"
              /\ model.currentGroup < Len(model.groups) - 1)
                => model'.currentGroup = model.currentGroup + 1]_vars

C27_Witness ==
    /\ Pressed({"n"})
    /\ model.state = "stateSelectGroup"
    /\ Len(model.groups) >= 2
    /\ model.currentGroup = Len(model.groups) - 1

\* the paths of a group
FilesOf(grp) == {grp[k] : k \in DOMAIN grp}

\* C31: in diff view firstFile and secondFile are two different paths of the
\* current group; the diff command is invoked only from second-file
\* selection, with two different paths, and Enter on the first file does
\* nothing.
C31_DiffOfTwoDifferentFiles ==
    /\ [](model.state = "stateViewDiff"
             => /\ model.firstFile # model.secondFile
                /\ model.firstFile \in FilesOf(getCurrentGroup(model))
                /\ model.secondFile \in FilesOf(getCurrentGroup(model)))
    /\ [](diffCall.called => diffCall.file1 # diffCall.file2)
    /\ [][/\ diffCall'.called
                => /\ model.state = "stateSelectSecondFile"
                   /\ Pressing({"enter", " "})
                   /\ diffCall'.file1 = model'.firstFile
                   /\ diffCall'.file2 = model'.secondFile
          /\ (/\ Pressing({"enter", " "})
              /\ model.state = "stateSelectSecondFile"
              /\ OnFirstFile(model, model.cursor))
                => model' = model /\ ~diffCall'.called]_vars

C31_Witness ==
    /\ Len(getCurrentGroup(model)) >= 3
    /\ model.state = "stateViewDiff"
    /\ diffCall.called
    /\ diffCall.file1 = getCurrentGroup(model)[3]
    /\ diffCall.file2 = getCurrentGroup(model)[1]

\* C32: the selection fields match the screen: in group selection and
\* first-file selection firstFile, secondFile and diffOutput are empty; in
\* second-file selection firstFile is set and the other two are empty; in
\* diff view firstFile and secondFile are set.
C32_FieldsMatchScreen ==
    /\ model.state \in {"stateSelectGroup", "stateSelectFirstFile"}
          => /\ model.firstFile = <<>>
             /\ model.secondFile = <<>>
             /\ model.diffOutput = ""
    /\ model.state = "stateSelectSecondFile"
          => /\ model.firstFile # <<>>
             /\ model.secondFile = <<>>
             /\ model.diffOutput = ""
    /\ model.state = "stateViewDiff"
          => /\ model.firstFile # <<>>
             /\ model.secondFile # <<>>

C32_Witness ==
    /\ Len(getCurrentGroup(model)) >= 3
    /\ Pressed({"esc"})
    /\ model.state = "stateSelectSecondFile"
    /\ model.firstFile = getCurrentGroup(model)[2]
    /\ model.width = 80

\* C33: the cursor stays in range: never negative, below the number of
\* groups in group selection and below the size of the current group in
\* first-file and second-file selection.
C33_CursorInRange ==
    /\ model.cursor >= 0
    /\ model.state = "stateSelectGroup" => model.cursor < Len(model.groups)
    /\ model.state \in {"stateSelectFirstFile", "stateSelectSecondFile"}
          => model.cursor < Len(getCurrentGroup(model))

C33_Witness ==
    /\ Len(getCurrentGroup(model)) >= 3
    /\ Pressed({"down", "j"})
    /\ model.state = "stateSelectSecondFile"
    /\ model.firstFile = getCurrentGroup(model)[3]
    /\ model.cursor = 1

CommandFailed(r) == ~r.started \/ r.status \notin {0, 1}

\* C35: a failure of the diff command is not fatal: the model moves to diff
\* view with an error message as diffOutput and no quit command is issued.
C35_DiffFailureShowsAnError ==
    (diffCall.called /\ CommandFailed(diffCall.result))
        => /\ model.state = "stateViewDiff"
           /\ model.diffOutput # ""
           /\ cmd = "nil"

(***************************************************************************)
(* Matcher.Group and the order of a range over a map, checked under        *)
(* SpecGroup.                                                              *)
(***************************************************************************)

\* how often the group g is in the slice r
TimesIn(g, r) == Cardinality({k \in DOMAIN r : r[k] = g})

\* the slices r and s hold the same groups, each as often
SameGroups(r, s) ==
    /\ Len(r) = Len(s)
    /\ \A k \in DOMAIN r : TimesIn(r[k], r) = TimesIn(r[k], s)

\* C36: for one input list and minPrefixLength every run of Group returns
\* the same groups, each the same sequence of paths; only the order of the
\* groups in the returned slice depends on the map iteration order.
C36_SameGroupsInEveryRun ==
    pc = "grouped" =>
        \A other \in Group(files, minPrefixLength) : SameGroups(result, other)

C36_Witness ==
    /\ pc = "grouped"
    /\ Len(result) = 2
    /\ \E other \in Group(files, minPrefixLength) : other # result

(***************************************************************************)
(* filterFilesBySuffix applied twice, checked under SpecRefilter.          *)
(***************************************************************************)

\* C37: for a non-nil pattern filterFilesBySuffix is idempotent: applied to
\* its own result it returns the same paths in the same order.
C37_FilterIsIdempotent ==
    (pc = "refiltered" /\ pattern # NoPattern) => refiltered = filtered

C37_Witness ==
    /\ pc = "refiltered"
    /\ pattern # NoPattern
    /\ Len(matchingFiles) >= 1
    /\ Len(filtered) > Len(matchingFiles)
    /\ Len(files) > Len(filtered)
    /\ rejected # {}

(***************************************************************************)
(* Properties of InteractiveCLI.Run, checked under SpecCli.                *)
(***************************************************************************)

\* the group handleGroup is working on
CurrentCliGroup == cliGroups[groupNum]

\* a step that reads line at the prompt of the current group
ReadsAtPrompt(line) ==
    pc = "prompt" /\ linesLeft' = linesLeft - 1 /\ scanText' = line

\* the loop of Run goes to the next group, or Run returns nil after the last
MovesOn ==
    IF groupNum < Len(cliGroups)
    THEN pc' = "handleGroup" /\ groupNum' = groupNum + 1
    ELSE pc' = "returned" /\ runRet' = "nil"

\* the same group is printed and prompted for again
PromptsAgain == pc' = "handleGroup" /\ groupNum' = groupNum

NumberOfPairs(grp) == (Len(grp) * (Len(grp) - 1)) \div 2

\* C38: Run presents the groups in list order; at a prompt, q makes Run
\* return the error "user quit" and nothing is presented after it, n moves
\* on to the next group without a diff, and invalid input (unparsable, pair
\* number out of range, file numbers out of range or equal) prompts for the
\* same group again without a diff.
C38_QuitNextAndInvalidInput ==
    /\ [](/\ \A k \in DOMAIN presented : presented[k] \in 1..Len(cliGroups)
          /\ presented # <<>> => presented[1] = 1
          /\ \A k \in 1..(Len(presented) - 1) :
                presented[k + 1] - presented[k] \in {0, 1})
    /\ [][/\ pc # "returned"
          /\ ReadsAtPrompt(<<"q">>)
                => /\ pc' = "returned"
                   /\ runRet' = "user quit"
                   /\ presented' = presented
                   /\ diffs' = diffs
          /\ ReadsAtPrompt(<<"n">>) => MovesOn /\ diffs' = diffs
          /\ ReadsAtPrompt(<<"x">>) => PromptsAgain /\ diffs' = diffs
          /\ (ReadsAtPrompt(<<"4">>) /\ NumberOfPairs(CurrentCliGroup) < 4)
                => PromptsAgain /\ diffs' = diffs
          /\ (ReadsAtPrompt(<<"1", "-", "4">>) /\ Len(CurrentCliGroup) < 4)
                => PromptsAgain /\ diffs' = diffs
          /\ ReadsAtPrompt(<<"1", "-", "1">>)
                => PromptsAgain /\ diffs' = diffs]_vars

C38_Witness ==
    /\ pc = "returned"
    /\ runRet = "user quit"
    /\ presented = <<1, 2, 2, 3>>
    /\ diffs = <<>>
    /\ linesLeft = 0

\* C39: Run terminates on every finite input: prompting again for a group
\* takes one input line or more, the end of the input ends the handling of
\* the current group without error, and a group of fewer than two files, or
\* an empty list of groups, is handled without reading.
C39_RunTerminates ==
    /\ <>(pc = "returned")
    /\ [][/\ PromptsAgain => linesLeft' < linesLeft
          /\ (pc \in {"prompt", "another"} /\ linesLeft = 0 /\ streamEnd = "EOF")
                => MovesOn /\ runRet' \in {"none", "nil"}
          /\ (pc = "handleGroup" /\ Len(CurrentCliGroup) < 2)
                => MovesOn /\ linesLeft' = linesLeft
          /\ (pc = "Run" /\ cliGroups = <<>>)
                => pc' = "returned" /\ runRet' = "nil" /\ linesLeft' = linesLeft]_vars

C39_Witness ==
    /\ pc = "returned"
    /\ runRet = "nil"
    /\ streamEnd = "EOF"
    /\ linesLeft = 0
    /\ presented = <<1, 2, 2, 3>>
    /\ Len(diffs) = 1

(***************************************************************************)
(* Properties of the union-find pass of Matcher.Group, checked under       *)
(* SpecUnion.                                                              *)
(***************************************************************************)

\* the array exists: Group is past its start with two files or more
InUnionFind == ufGroupID # <<>>

\* the root findRoot would return for x
RootOf(x) == findRoot(ufGroupID, x).root

\* the pairwise pass is over
PairwisePassDone == InUnionFind /\ pc \in {"collect", "grouped"}

\* C40: throughout Group no entry of the union-find array is larger than its
\* index, and once the pairwise pass is over the root of every cluster is
\* the smallest index of the cluster.
C40_ParentsPointDown ==
    /\ InUnionFind => \A x \in DOMAIN ufGroupID : ufGroupID[x] <= x
    /\ PairwisePassDone =>
          \A x \in DOMAIN ufGroupID :
             \A y \in DOMAIN ufGroupID :
                RootOf(y) = RootOf(x) => RootOf(x) <= y

\* two clusters that take turns in the list
C40_Witness ==
    /\ pc = "grouped"
    /\ ufGroupID = <<1, 2, 1, 2>>
    /\ Len(result) = 2

\* the steps give what Group gives
UnionAgreesWithGroup == pc = "grouped" => result \in Group(files, minPrefixLength)

====
